---- MODULE Spec2Model ----
(***************************************************************************)
(* Card search of the oh-sheet extension: the tokenizer/normalizer and the *)
(* intent classifier of lib/search-utils.js, and the card cache of         *)
(* lib/card-db.js (IndexedDB stores "cards" and "sets", cacheSet and       *)
(* searchCards with its three retrieval strategies and the ranking).       *)
(*                                                                         *)
(* A JavaScript string is a sequence of characters; a character is a       *)
(* one-character TLA+ string.  Code gives its UTF-16 code unit, which is   *)
(* the order IndexedDB keys and String comparison use.                     *)
(***************************************************************************)
EXTENDS Integers, Sequences, FiniteSets, TLC

VARIABLES
  cards,      \* object store "cards": emid -> card record
  sets,       \* object store "sets": set_code -> set metadata
  search,     \* the last searchCards call: its arguments, candidates, result
  inName,     \* tokenizer run: the raw card name handed to toCardRecord
  outRecord,  \* tokenizer run: the record toCardRecord built, or NoValue
  inQuery,    \* classifier run: the raw query handed to detectSearchIntent
  outIntent,  \* classifier run: the intent returned, or NoValue
  outScore,   \* scorer run: the scores scoreMatch returned, or NoValue
  running,    \* searchCards invocations whose cursor is open: id -> its state
  writing,    \* the readwrite transaction of cacheSet/clearSet/clearAll, or NoValue
  limiter,    \* the RateLimiter of echo-api.js: _lastTime, _queue
  request,    \* one call of request() of echo-api.js, or NoValue
  overlay,    \* the overlay: input, debounce timers, searches in flight, results
  worker,     \* the service worker: token, stored token, position, response
  now         \* the clock (performance.now, timers), in ticks

\* the variables of the search core and those of the transactions, the API
\* client and the overlay
coreVars == <<cards, sets, search, inName, outRecord, inQuery, outIntent, outScore>>
ioVars == <<running, writing, limiter, request, overlay, worker, now>>
vars == <<coreVars, ioVars>>

NoValue == [none |-> TRUE]

\* nothing of the transactions, the API client and the overlay has started
IoIdle ==
  /\ running = <<>>
  /\ writing = NoValue
  /\ limiter = NoValue
  /\ request = NoValue
  /\ overlay = NoValue
  /\ worker = NoValue
  /\ now = 0

-----------------------------------------------------------------------------
(* Characters *)

LowerLetters ==
  <<"a","b","c","d","e","f","g","h","i","j","k","l","m",
    "n","o","p","q","r","s","t","u","v","w","x","y","z">>
UpperLetters ==
  <<"A","B","C","D","E","F","G","H","I","J","K","L","M",
    "N","O","P","Q","R","S","T","U","V","W","X","Y","Z">>

Range(f) == { f[i] : i \in DOMAIN f }

LowerSet == Range(LowerLetters)
UpperSet == Range(UpperLetters)
Digits == {"0", "1"}
\* \s of a JavaScript regular expression, and what String.trim strips
Whitespace == {" ", "\t"}
Punctuation == {"-", "'", "/", "!", "_"}

Chars == LowerSet \cup UpperSet \cup Digits \cup Whitespace \cup Punctuation

LetterIndex(c) ==
  CHOOSE i \in 1..26 : LowerLetters[i] = c \/ UpperLetters[i] = c

\* UTF-16 code unit of a character
Code(c) ==
  IF c \in LowerSet THEN 96 + LetterIndex(c)
  ELSE IF c \in UpperSet THEN 64 + LetterIndex(c)
  ELSE CASE c = "\t" -> 9
         [] c = " "  -> 32
         [] c = "!"  -> 33
         [] c = "'"  -> 39
         [] c = "-"  -> 45
         [] c = "/"  -> 47
         [] c = "0"  -> 48
         [] c = "1"  -> 49
         [] c = "_"  -> 95

LowerChar(c) == IF c \in UpperSet THEN LowerLetters[LetterIndex(c)] ELSE c
UpperChar(c) == IF c \in LowerSet THEN UpperLetters[LetterIndex(c)] ELSE c

\* String.prototype.toLowerCase / toUpperCase
toLowerCase(s) == [i \in 1..Len(s) |-> LowerChar(s[i])]
toUpperCase(s) == [i \in 1..Len(s) |-> UpperChar(s[i])]

\* \w of a JavaScript regular expression
IsWordChar(c) == c \in LowerSet \cup UpperSet \cup Digits \cup {"_"}

-----------------------------------------------------------------------------
(* String helpers: the JavaScript built-ins the code calls *)

\* String.prototype.trim
trim(s) ==
  LET keep == { i \in 1..Len(s) : s[i] \notin Whitespace }
  IN IF keep = {} THEN <<>>
     ELSE LET lo == CHOOSE i \in keep : \A j \in keep : i <= j
              hi == CHOOSE i \in keep : \A j \in keep : i >= j
          IN SubSeq(s, lo, hi)

\* String.prototype.startsWith
startsWith(s, p) == Len(p) <= Len(s) /\ SubSeq(s, 1, Len(p)) = p

\* String.prototype.indexOf, 0-based, -1 when absent
indexOf(s, p) ==
  LET hits == { i \in 0..(Len(s) - Len(p)) : SubSeq(s, i + 1, i + Len(p)) = p }
  IN IF hits = {} THEN -1 ELSE CHOOSE i \in hits : \A j \in hits : i <= j

\* String.prototype.charAt(0): the first character as a string, "" when empty
charAt0(s) == IF Len(s) = 0 THEN <<>> ELSE <<s[1]>>

\* s.replace(/[class]/g, ""): drop every character of the class
RemoveAll(s, class) == SelectSeq(s, LAMBDA c : c \notin class)

\* s.split(/[class]+/): the pieces between maximal runs of class characters,
\* empty first and last pieces included, as String.prototype.split yields them
RECURSIVE SplitFrom(_, _, _, _)
SplitFrom(s, i, cur, class) ==
  IF i > Len(s) THEN <<cur>>
  ELSE IF s[i] \in class
       THEN LET rest == { j \in (i + 1)..Len(s) : s[j] \notin class }
                nxt == IF rest = {} THEN Len(s) + 1
                       ELSE CHOOSE j \in rest : \A k \in rest : j <= k
            IN <<cur>> \o SplitFrom(s, nxt, <<>>, class)
       ELSE SplitFrom(s, i + 1, Append(cur, s[i]), class)

split(s, class) == SplitFrom(s, 1, <<>>, class)

\* Array.prototype.includes
includes(list, x) == \E i \in 1..Len(list) : list[i] = x

\* code-unit order of two strings (IndexedDB key order)
RECURSIVE StrLess(_, _)
StrLess(a, b) ==
  IF Len(b) = 0 THEN FALSE
  ELSE IF Len(a) = 0 THEN TRUE
  ELSE IF a[1] = b[1] THEN StrLess(Tail(a), Tail(b))
  ELSE Code(a[1]) < Code(b[1])

-----------------------------------------------------------------------------
(* search-utils.js: tokenizer and normalizer *)

STOP_WORDS ==
  << <<"o","f">>, <<"t","h","e">>, <<"a","n","d">>, <<"a">>, <<"a","n">>,
     <<"f","o","r">>, <<"t","o">>, <<"i","n">> >>

\* the class [\s-] of the split in extractTokens (the en and em dash of the
\* class are outside Chars)
TokenSeparators == Whitespace \cup {"-"}

extractTokens(name) ==
  LET pieces   == split(toLowerCase(name), TokenSeparators)
      nonEmpty == SelectSeq(pieces, LAMBDA t : Len(t) > 0)
  IN SelectSeq(nonEmpty, LAMBDA t : ~includes(STOP_WORDS, t))

generateInitials(name) ==
  LET tokens == extractTokens(name)
  IN [i \in 1..Len(tokens) |-> tokens[i][1]]

\* the loop stops one prefix short (i < initials.length)
generateProgressiveInitials_OneShort(name) ==
  LET initials == generateInitials(name)
  IN [i \in 1..(Len(initials) - 1) |-> SubSeq(initials, 1, i)]

generateProgressiveInitials(name) ==
  LET initials == generateInitials(name)
  IN [i \in 1..Len(initials) |-> SubSeq(initials, 1, i)]

\* without the toLowerCase step
normalizeForSearch_NoLower(name) ==
  LET noApos  == RemoveAll(name, {"'"})
      cleaned == SelectSeq(noApos,
                   LAMBDA c : IsWordChar(c) \/ c \in Whitespace \/ c = "-")
  IN trim(cleaned)

normalizeForSearch(name) ==
  LET lower   == toLowerCase(name)
      noApos  == RemoveAll(lower, {"'"})
      cleaned == SelectSeq(noApos,
                   LAMBDA c : IsWordChar(c) \/ c \in Whitespace \/ c = "-")
  IN trim(cleaned)

-----------------------------------------------------------------------------
(* card-name-utils.js: normalizeCardName *)

\* 1-based position where the whitespace run that ends just before q starts
WsRunStart(s, q) ==
  LET starts == { p \in 1..q : \A k \in p..(q - 1) : s[k] \in Whitespace }
  IN CHOOSE p \in starts : \A r \in starts : p <= r

\* 1-based position of the first case-insensitive occurrence of lit, 0 if none
FindCI(s, lit) == indexOf(toLowerCase(s), toLowerCase(lit)) + 1

JP_FULL_ART == <<"-"," ","J","P"," ","F","u","l","l"," ","A","r","t">>
ART_CARD == <<"A","r","t"," ","C","a","r","d">>
TOKEN == <<"T","o","k","e","n">>
EMBLEM == <<"E","m","b","l","e","m">>

\* name.replace(/\s*- JP Full Art/i, "")
StripJpFullArt(s) ==
  LET q == FindCI(s, JP_FULL_ART)
  IN IF q = 0 THEN s
     ELSE SubSeq(s, 1, WsRunStart(s, q) - 1)
            \o SubSeq(s, q + Len(JP_FULL_ART), Len(s))

\* name.replace(/\s*Art Card.*$/i, "")
StripArtCard(s) ==
  LET q == FindCI(s, ART_CARD)
  IN IF q = 0 THEN s ELSE SubSeq(s, 1, WsRunStart(s, q) - 1)

\* name.replace(/\s+Token$/i, "")
StripToken(s) ==
  LET q == Len(s) - Len(TOKEN) + 1
  IN IF q >= 2 /\ toLowerCase(SubSeq(s, q, Len(s))) = toLowerCase(TOKEN)
        /\ s[q - 1] \in Whitespace
     THEN SubSeq(s, 1, WsRunStart(s, q) - 1)
     ELSE s

\* One pass of the TREATMENT_PATTERNS loop followed by trim.  Every other
\* pattern of the list needs a parenthesis, which is outside Chars.
StripTreatments(s) == trim(StripToken(StripArtCard(StripJpFullArt(s))))

RECURSIVE StripUntilStable(_)
StripUntilStable(s) ==
  LET next == StripTreatments(s)
  IN IF next = s THEN s ELSE StripUntilStable(next)

\* name.match(/^Emblem\s*-\s*(.+)$/i): the captured group, or <<>> if no match
EmblemGroup(s) ==
  LET n == Len(EMBLEM)
      afterWord == { j \in (n + 1)..Len(s) : s[j] \notin Whitespace }
      dash == IF afterWord = {} THEN 0
              ELSE CHOOSE j \in afterWord : \A k \in afterWord : j <= k
      afterDash == { j \in (dash + 1)..Len(s) : s[j] \notin Whitespace }
  IN IF Len(s) > n /\ toLowerCase(SubSeq(s, 1, n)) = toLowerCase(EMBLEM)
        /\ dash > 0 /\ s[dash] = "-" /\ afterDash # {}
     THEN SubSeq(s, CHOOSE j \in afterDash : \A k \in afterDash : j <= k, Len(s))
     ELSE <<>>

DFC_SEPARATOR == <<" ", "/", "/", " ">>

normalizeCardName(name) ==
  LET trimmed == trim(name)
      dfcIdx  == indexOf(trimmed, DFC_SEPARATOR)
      front   == IF dfcIdx # -1 THEN trim(SubSeq(trimmed, 1, dfcIdx)) ELSE trimmed
      group   == EmblemGroup(front)
      emblem  == IF group # <<>> THEN group \o <<" ">> \o EMBLEM ELSE front
  IN StripUntilStable(emblem)

-----------------------------------------------------------------------------
(* card-db.js: toCardRecord *)

\* The record stored for a raw API card.  Fields copied through from the API
\* and never read by the search (collectors_number, rarity, main_type, image,
\* image_cropped) and the variant tags are left out.
toCardRecord(raw, setCode, setName) ==
  LET name             == trim(raw.name)
      searchNormalized == normalizeForSearch(name)
  IN [ emid                 |-> raw.emid,
       name                 |-> name,
       name_lower           |-> toLowerCase(name),
       name_normalized      |-> toLowerCase(normalizeCardName(name)),
       search_normalized    |-> searchNormalized,
       first_letter         |-> charAt0(searchNormalized),
       tokens               |-> extractTokens(name),
       initials             |-> generateInitials(name),
       progressive_initials |-> generateProgressiveInitials(name),
       set_code             |-> setCode,
       set_name             |-> setName ]

\* A record stored by version 1 of the database, which the upgrade to version
\* 2 leaves as it is: the upgrade only adds the indexes by_initials and
\* by_search_normalized.  The record has the key paths of the version 1 indexes
\* and the name fields, and none of search_normalized, tokens, initials,
\* progressive_initials.
LegacyFields ==
  {"emid", "name", "name_lower", "name_normalized", "first_letter",
   "set_code", "set_name"}

LegacyRecord(raw, setCode, setName) ==
  LET record == toCardRecord(raw, setCode, setName)
  IN [f \in LegacyFields |-> record[f]]

-----------------------------------------------------------------------------
(* search-utils.js: intent classifier *)

\* /^[a-z]{2,}$/.test(s)
IsLowerLetters2(s) == Len(s) >= 2 /\ \A i \in 1..Len(s) : s[i] \in LowerSet

\* /^[a-z](\s+[a-z])+$/i.test(s): after the letter at i - 1, the rest of s is
\* n groups already read plus zero or more groups of (whitespace run, letter)
RECURSIVE SpaceGroups(_, _, _)
SpaceGroups(s, i, n) ==
  IF i > Len(s) THEN n >= 1
  ELSE IF s[i] \notin Whitespace THEN FALSE
  ELSE LET rest == { j \in i..Len(s) : s[j] \notin Whitespace }
           j == IF rest = {} THEN 0 ELSE CHOOSE k \in rest : \A m \in rest : k <= m
       IN j > 0 /\ s[j] \in LowerSet \cup UpperSet /\ SpaceGroups(s, j + 1, n + 1)

\* /^[a-z]( [a-z])+$/i: exactly one space between the letters
IsSpaceInitials_SingleSpace(s) ==
  /\ Len(s) >= 3 /\ Len(s) % 2 = 1
  /\ \A i \in 1..Len(s) :
       IF i % 2 = 1 THEN s[i] \in LowerSet \cup UpperSet ELSE s[i] = " "

IsSpaceInitials(s) ==
  Len(s) >= 1 /\ s[1] \in LowerSet \cup UpperSet /\ SpaceGroups(s, 2, 0)

\* /^[a-z]{2,}$/.test(trimmed) && query === query.toUpperCase()
IsPureInitials_AnyCase(trimmed, query) == IsLowerLetters2(trimmed)

IsPureInitials(trimmed, query) ==
  IsLowerLetters2(trimmed) /\ query = toUpperCase(query)

\* without the test for an empty trimmed query
detectSearchIntent_NoEmptyTest(query) ==
  LET trimmed == toLowerCase(trim(query))
  IN IF IsPureInitials(trimmed, query) THEN
       [strategy |-> "initials", query |-> trimmed, originalCase |-> query]
     ELSE IF IsSpaceInitials(trimmed) THEN
       [strategy |-> "space_initials",
        query |-> toLowerCase(RemoveAll(trimmed, Whitespace)),
        originalCase |-> RemoveAll(query, Whitespace)]
     ELSE IF includes(trimmed, " ") THEN
       LET tokens == SelectSeq(split(trimmed, Whitespace), LAMBDA t : Len(t) > 0)
       IN [strategy |-> "multi_token", query |-> trimmed,
           tokens |-> tokens, firstToken |-> tokens[1]]
     ELSE
       [strategy |-> "prefix", query |-> trimmed]

detectSearchIntent(query) ==
  LET trimmed == toLowerCase(trim(query))
  IN IF trimmed = <<>> THEN
       [strategy |-> "empty", query |-> trimmed]
     ELSE IF IsPureInitials(trimmed, query) THEN
       [strategy |-> "initials", query |-> trimmed, originalCase |-> query]
     ELSE IF IsSpaceInitials(trimmed) THEN
       [strategy |-> "space_initials",
        query |-> toLowerCase(RemoveAll(trimmed, Whitespace)),
        originalCase |-> RemoveAll(query, Whitespace)]
     ELSE IF includes(trimmed, " ") THEN
       LET tokens == SelectSeq(split(trimmed, Whitespace), LAMBDA t : Len(t) > 0)
       IN [strategy |-> "multi_token", query |-> trimmed,
           tokens |-> tokens, firstToken |-> tokens[1]]
     ELSE
       [strategy |-> "prefix", query |-> trimmed]

-----------------------------------------------------------------------------
(* search-utils.js: matching and scoring *)

matchesInitials(query, cardInitials, progressiveInitials) ==
  query = cardInitials \/ includes(progressiveInitials, query)

\* cardTokens.some(cToken => cToken.startsWith(qToken))
SomeTokenStartsWith(cardTokens, qToken) ==
  \E j \in 1..Len(cardTokens) : startsWith(cardTokens[j], qToken)

\* the i-th query token must start the i-th card token
matchesTokenPrefixes_Positional(queryTokens, cardTokens) ==
  /\ Len(queryTokens) # 0
  /\ \A i \in 1..Len(queryTokens) :
       i <= Len(cardTokens) /\ startsWith(cardTokens[i], queryTokens[i])

matchesTokenPrefixes(queryTokens, cardTokens) ==
  /\ Len(queryTokens) # 0
  /\ \A i \in 1..Len(queryTokens) : SomeTokenStartsWith(cardTokens, queryTokens[i])

\* the index of the last card token that starts with qToken
findIndexStartsWith_Last(cardTokens, qToken) ==
  LET hits == { j \in 1..Len(cardTokens) : startsWith(cardTokens[j], qToken) }
  IN IF hits = {} THEN -1 ELSE (CHOOSE j \in hits : \A k \in hits : j >= k) - 1

\* cardTokens.findIndex(cToken => cToken.startsWith(qToken)), 0-based, -1 if none
findIndexStartsWith(cardTokens, qToken) ==
  LET hits == { j \in 1..Len(cardTokens) : startsWith(cardTokens[j], qToken) }
  IN IF hits = {} THEN -1 ELSE (CHOOSE j \in hits : \A k \in hits : j <= k) - 1

\* a field of a stored record, or <<>> ("" / undefined) when the record lacks it
Has(card, field) == field \in DOMAIN card
Field(card, field) == IF Has(card, field) THEN card[field] ELSE <<>>

\* scores are kept as integers: ScoreScale times the JavaScript number
ScoreScale == 10

RECURSIVE MultiTokenScore(_, _, _)
MultiTokenScore(queryTokens, cardTokens, i) ==
  IF i > Len(queryTokens) THEN 0
  ELSE LET tokenIndex == findIndexStartsWith(cardTokens, queryTokens[i])
       IN (IF tokenIndex # -1 THEN tokenIndex * ScoreScale + (i - 1) ELSE 0)
            + MultiTokenScore(queryTokens, cardTokens, i + 1)

\* the branch of scoreMatch for a card without tokens or with falsy initials
scoreFallback(intent, card) ==
  LET nameToMatch ==
        IF Field(card, "name_normalized") # <<>> THEN card.name_normalized
        ELSE IF Field(card, "name_lower") # <<>> THEN card.name_lower
        ELSE Field(card, "name")
  IN CASE intent.strategy \in {"initials", "space_initials"} ->
            IF intent.query = generateInitials(Field(card, "name"))
            THEN 0 ELSE 1000 * ScoreScale
       [] intent.strategy = "multi_token" ->
            IF \A i \in 1..Len(intent.tokens) :
                 SomeTokenStartsWith(extractTokens(Field(card, "name")),
                                     intent.tokens[i])
            THEN 500 * ScoreScale ELSE 1000 * ScoreScale
       [] intent.strategy = "prefix" ->
            IF indexOf(nameToMatch, intent.query) = 0
            THEN 100 * ScoreScale ELSE 1000 * ScoreScale
       [] OTHER -> 1000 * ScoreScale

\* initials that start with the query count as exact
scoreIndexed_PrefixIsExact(intent, card) ==
  CASE intent.strategy \in {"initials", "space_initials"} ->
         IF startsWith(card.initials, intent.query) THEN 0 ELSE 100 * ScoreScale
    [] intent.strategy = "multi_token" ->
         IF \A i \in 1..Len(intent.tokens) :
              findIndexStartsWith(card.tokens, intent.tokens[i]) # -1
         THEN MultiTokenScore(intent.tokens, card.tokens, 1)
         ELSE 1000 * ScoreScale
    [] intent.strategy = "prefix" ->
         LET nameStart == indexOf(card.search_normalized, intent.query)
         IN IF nameStart = 0 THEN 0 ELSE nameStart * ScoreScale
    [] OTHER -> 1000 * ScoreScale

scoreIndexed(intent, card) ==
  CASE intent.strategy \in {"initials", "space_initials"} ->
         IF intent.query = card.initials THEN 0 ELSE 100 * ScoreScale
    [] intent.strategy = "multi_token" ->
         IF \A i \in 1..Len(intent.tokens) :
              findIndexStartsWith(card.tokens, intent.tokens[i]) # -1
         THEN MultiTokenScore(intent.tokens, card.tokens, 1)
         ELSE 1000 * ScoreScale
    [] intent.strategy = "prefix" ->
         LET nameStart == indexOf(card.search_normalized, intent.query)
         IN IF nameStart = 0 THEN 0 ELSE nameStart * ScoreScale
    [] OTHER -> 1000 * ScoreScale

scoreMatch(intent, card) ==
  IF ~Has(card, "tokens") \/ Field(card, "initials") = <<>>
  THEN scoreFallback(intent, card)
  ELSE scoreIndexed(intent, card)

-----------------------------------------------------------------------------
(* card-db.js: the object stores and their indexes *)

\* no record stored
EmptyStore == [k \in {} |-> NoValue]

\* IDBObjectStore.put: insert, or replace the record with the same key
StorePut(store, key, value) ==
  [k \in DOMAIN store \cup {key} |-> IF k = key THEN value ELSE store[k]]

\* IDBObjectStore.delete / IDBCursor.delete: remove the record with the key
StoreDelete(store, key) == [k \in DOMAIN store \ {key} |-> store[k]]

\* An index holds the records that have its key path, ordered by index key and
\* then by primary key (emid)
IndexedEmids(store, keyPath) == { e \in DOMAIN store : Has(store[e], keyPath) }

EntryBefore(store, keyPath, e, f) ==
  \/ StrLess(store[e][keyPath], store[f][keyPath])
  \/ (store[e][keyPath] = store[f][keyPath] /\ e <= f)

RECURSIVE CursorFrom(_, _, _)
CursorFrom(store, keyPath, remaining) ==
  IF remaining = {} THEN <<>>
  ELSE LET first == CHOOSE e \in remaining :
                      \A f \in remaining : EntryBefore(store, keyPath, e, f)
       IN <<store[first]>> \o CursorFrom(store, keyPath, remaining \ {first})

\* index.openCursor(): every record of the index, in index order
openCursor(store, keyPath) ==
  CursorFrom(store, keyPath, IndexedEmids(store, keyPath))

\* index.openCursor(IDBKeyRange.only(key))
openCursorOnly(store, keyPath, key) ==
  CursorFrom(store, keyPath,
             { e \in IndexedEmids(store, keyPath) : store[e][keyPath] = key })

\* index.openCursor(IDBKeyRange.lowerBound(key))
openCursorLowerBound(store, keyPath, key) ==
  CursorFrom(store, keyPath,
             { e \in IndexedEmids(store, keyPath) : ~StrLess(store[e][keyPath], key) })

-----------------------------------------------------------------------------
(* card-db.js: searchCards *)

\* set codes are atomic; SetCodeUpper is String.toUpperCase on them
SetCodeUpper(code) ==
  CASE code = "neo" -> "NEO"
    [] code = "dmu" -> "DMU"
    [] OTHER -> code

\* the activeSets argument: absent (undefined) or a list of set codes
NoActiveSets == [given |-> FALSE, list |-> <<>>]
ActiveSets(list) == [given |-> TRUE, list |-> list]

\* setFilter of searchCards: null, or the Set of upper-cased codes
SetFilterOf(activeSets) ==
  IF activeSets.given /\ Len(activeSets.list) > 0
  THEN [isNull |-> FALSE, codes |-> { SetCodeUpper(c) : c \in Range(activeSets.list) }]
  ELSE [isNull |-> TRUE, codes |-> {}]

\* !setFilter || setFilter.has(card.set_code)
PassesSetFilter(setFilter, card) ==
  setFilter.isNull \/ card.set_code \in setFilter.codes

\* Each retrieval gives its results and the number of transactions it opened

\* only card.initials === query
searchByInitials_ExactOnly(store, query, setFilter) ==
  [ transactions |-> 1,
    results |-> SelectSeq(openCursor(store, "initials"),
      LAMBDA card :
        /\ ~(Field(card, "initials") = <<>> \/ ~Has(card, "progressive_initials"))
        /\ card.initials = query
        /\ PassesSetFilter(setFilter, card)) ]

searchByInitials(store, query, setFilter) ==
  [ transactions |-> 1,
    results |-> SelectSeq(openCursor(store, "initials"),
      LAMBDA card :
        /\ ~(Field(card, "initials") = <<>> \/ ~Has(card, "progressive_initials"))
        /\ (startsWith(card.initials, query)
              \/ includes(card.progressive_initials, query))
        /\ PassesSetFilter(setFilter, card)) ]

\* a cursor over the whole by_first_letter index, without the key range
searchByMultiToken_NoRange(store, tokens, firstToken, setFilter) ==
  IF firstToken = <<>> THEN [transactions |-> 0, results |-> <<>>]
  ELSE
  [ transactions |-> 1,
    results |-> SelectSeq(openCursor(store, "first_letter"),
      LAMBDA card :
        /\ Has(card, "tokens")
        /\ matchesTokenPrefixes(tokens, card.tokens)
        /\ PassesSetFilter(setFilter, card)) ]

searchByMultiToken(store, tokens, firstToken, setFilter) ==
  IF firstToken = <<>> THEN [transactions |-> 0, results |-> <<>>]
  ELSE
  [ transactions |-> 1,
    results |-> SelectSeq(openCursorOnly(store, "first_letter", charAt0(firstToken)),
      LAMBDA card :
        /\ Has(card, "tokens")
        /\ matchesTokenPrefixes(tokens, card.tokens)
        /\ PassesSetFilter(setFilter, card)) ]

\* the cursor loop of searchByPrefix: stop at the first key that does not
\* start with the query
RECURSIVE PrefixScan(_, _, _, _)
\* the scan also stops at the first record outside the set filter
PrefixScan_StopAtFiltered(cursor, i, query, setFilter) ==
  IF i > Len(cursor) \/ ~startsWith(cursor[i].search_normalized, query)
     \/ ~PassesSetFilter(setFilter, cursor[i])
  THEN <<>>
  ELSE <<cursor[i]>> \o PrefixScan(cursor, i + 1, query, setFilter)

PrefixScan(cursor, i, query, setFilter) ==
  IF i > Len(cursor) \/ ~startsWith(cursor[i].search_normalized, query) THEN <<>>
  ELSE (IF PassesSetFilter(setFilter, cursor[i]) THEN <<cursor[i]>> ELSE <<>>)
         \o PrefixScan(cursor, i + 1, query, setFilter)

searchByPrefix(store, query, setFilter) ==
  IF query = <<>> THEN [transactions |-> 0, results |-> <<>>]
  ELSE
  [ transactions |-> 1,
    results |-> PrefixScan(openCursorLowerBound(store, "search_normalized", query),
                           1, query, setFilter) ]

\* Array.prototype.sort((a, b) => a.score - b.score), which is stable: x goes
\* after every element whose score is not greater
RECURSIVE InsertByScore_Unstable(_, _)
\* x goes before the elements of equal score
InsertByScore_Unstable(sorted, x) ==
  IF sorted = <<>> THEN <<x>>
  ELSE IF sorted[1].score < x.score
       THEN <<sorted[1]>> \o InsertByScore_Unstable(Tail(sorted), x)
       ELSE <<x>> \o sorted

RECURSIVE InsertByScore(_, _)
InsertByScore(sorted, x) ==
  IF sorted = <<>> THEN <<x>>
  ELSE IF sorted[1].score <= x.score
       THEN <<sorted[1]>> \o InsertByScore(Tail(sorted), x)
       ELSE <<x>> \o sorted

RECURSIVE SortByScore(_, _)
SortByScore(scored, n) ==
  IF n = 0 THEN <<>> ELSE InsertByScore(SortByScore(scored, n - 1), scored[n])

\* slice(0, end + 1)
slice0_OneMore(list, end) ==
  SubSeq(list, 1, IF end + 1 > Len(list) THEN Len(list) ELSE end + 1)

\* Array.prototype.slice(0, end)
slice0(list, end) ==
  LET stop == IF end < 0 THEN (IF Len(list) + end < 0 THEN 0 ELSE Len(list) + end)
              ELSE (IF end > Len(list) THEN Len(list) ELSE end)
  IN SubSeq(list, 1, stop)

DEFAULT_MAX_RESULTS == 20

\* the set filter applied to the list that was already cut to maxResults
searchCards_FilterAfterCap(store, query, activeSets, maxResults) ==
  IF query = <<>> \/ trim(query) = <<>> THEN
    [intent |-> NoValue, candidates |-> <<>>, returned |-> <<>>, transactions |-> 0]
  ELSE
    LET intent    == detectSearchIntent(query)
        setFilter == SetFilterOf(activeSets)
        noFilter  == SetFilterOf(NoActiveSets)
        found ==
          CASE intent.strategy \in {"initials", "space_initials"} ->
                 searchByInitials(store, intent.query, noFilter)
            [] intent.strategy = "multi_token" ->
                 searchByMultiToken(store, intent.tokens, intent.firstToken, noFilter)
            [] intent.strategy = "prefix" ->
                 searchByPrefix(store, intent.query, noFilter)
            [] OTHER -> [transactions |-> 0, results |-> <<>>]
        scored == [i \in 1..Len(found.results) |->
                     [card |-> found.results[i],
                      score |-> scoreMatch(intent, found.results[i])]]
        top    == slice0(SortByScore(scored, Len(scored)), maxResults)
    IN [ intent       |-> intent,
         candidates   |-> found.results,
         returned     |-> SelectSeq([i \in 1..Len(top) |-> top[i].card],
                                    LAMBDA card : PassesSetFilter(setFilter, card)),
         transactions |-> found.transactions ]

\* What one searchCards call does: the intent it detected (NoValue when it
\* returned before detecting), the candidates, the list it returned and the
\* number of store transactions it opened
searchCards(store, query, activeSets, maxResults) ==
  IF query = <<>> \/ trim(query) = <<>> THEN
    [intent |-> NoValue, candidates |-> <<>>, returned |-> <<>>, transactions |-> 0]
  ELSE
    LET intent    == detectSearchIntent(query)
        setFilter == SetFilterOf(activeSets)
        known     == intent.strategy \in
                       {"initials", "space_initials", "multi_token", "prefix"}
        found ==
          CASE intent.strategy \in {"initials", "space_initials"} ->
                 searchByInitials(store, intent.query, setFilter)
            [] intent.strategy = "multi_token" ->
                 searchByMultiToken(store, intent.tokens, intent.firstToken, setFilter)
            [] intent.strategy = "prefix" ->
                 searchByPrefix(store, intent.query, setFilter)
            [] OTHER -> [transactions |-> 0, results |-> <<>>]
        scored == [i \in 1..Len(found.results) |->
                     [card |-> found.results[i],
                      score |-> scoreMatch(intent, found.results[i])]]
        sorted == SortByScore(scored, Len(scored))
        top    == slice0(sorted, maxResults)
    IN [ intent       |-> intent,
         candidates   |-> found.results,
         returned     |-> IF known THEN [i \in 1..Len(top) |-> top[i].card] ELSE <<>>,
         transactions |-> found.transactions ]

\* searchCards from the point where it holds the intent: the switch on the
\* strategy, the scoring, the sort and the cut.  No statement of it throws;
\* threw says whether the call ended with an error.
searchIntent(store, intent, activeSets, maxResults) ==
  LET setFilter == SetFilterOf(activeSets)
      found ==
        CASE intent.strategy \in {"initials", "space_initials"} ->
               searchByInitials(store, intent.query, setFilter)
          [] intent.strategy = "multi_token" ->
               searchByMultiToken(store, intent.tokens, intent.firstToken, setFilter)
          [] intent.strategy = "prefix" ->
               searchByPrefix(store, intent.query, setFilter)
          [] OTHER -> [transactions |-> 0, results |-> <<>>]
      scored == [i \in 1..Len(found.results) |->
                   [card |-> found.results[i],
                    score |-> scoreMatch(intent, found.results[i])]]
      top    == slice0(SortByScore(scored, Len(scored)), maxResults)
  IN [ intent       |-> intent,
       candidates   |-> found.results,
       returned     |-> [i \in 1..Len(top) |-> top[i].card],
       transactions |-> found.transactions,
       threw        |-> FALSE ]

-----------------------------------------------------------------------------
(* card-db.js: cacheSet *)

RECURSIVE PutRecords(_, _, _, _, _)
PutRecords(store, rawCards, i, setCode, setName) ==
  IF i > Len(rawCards) THEN store
  ELSE PutRecords(StorePut(store, rawCards[i].emid,
                           toCardRecord(rawCards[i], setCode, setName)),
                  rawCards, i + 1, setCode, setName)

\* the "cards" store after cacheSet's transaction
cacheSetCards(store, setCode, setName, rawCards) ==
  PutRecords(store, rawCards, 1, setCode, setName)

\* the "sets" store after cacheSet's transaction (cached_at, a timestamp, is
\* left out)
cacheSetSets(setStore, setCode, setName, rawCards) ==
  StorePut(setStore, setCode,
           [set_code |-> setCode, set_name |-> setName,
            card_count |-> Len(rawCards), active |-> TRUE])

-----------------------------------------------------------------------------
(* Inputs *)

MaxNameLen == 4
MaxQueryLen == 4
MaxEmid == 2

StringsOver(alphabet, maxLen) ==
  UNION { [1..n -> alphabet] : n \in 0..maxLen }

\* card names handed to the tokenizer: letters that spell the stop-words "a"
\* and "to", both cases, the separators and two punctuation characters
NameAlphabet == {"T", "t", "o", "a", " ", "-", "/", "'"}
Names == StringsOver(NameAlphabet, MaxNameLen)

\* queries handed to the classifier
QueryAlphabet == {"S", "F", "s", "f", " ", "\t", "1"}
Queries == StringsOver(QueryAlphabet, MaxQueryLen)

\* the catalog: card names of the cached sets
StormfighterFalcon ==
  <<"S","t","o","r","m","f","i","g","h","t","e","r"," ","F","a","l","c","o","n">>
FallOfStorms == <<"F","a","l","l"," ","o","f"," ","S","t","o","r","m","s">>
SwordOfFireAndIce ==
  <<"S","w","o","r","d"," ","o","f"," ","F","i","r","e"," ","a","n","d"," ","I","c","e">>
StormSeeker == <<"S","t","o","r","m"," ","S","e","e","k","e","r">>
The == <<"T","h","e">>
Thopter == <<"T","h","o","p","t","e","r">>

CardNames == {StormfighterFalcon, FallOfStorms, SwordOfFireAndIce, StormSeeker, The}
Emids == 1..MaxEmid
SetCodes == {"NEO", "DMU"}
RawCards == [emid : Emids, name : CardNames]

\* the queries typed into the overlay
SearchQueries ==
  { <<>>, <<" ">>,
    <<"S","F">>, <<"S"," ","F">>,
    <<"s","t","o","r","m"," ","f","a","l">>,
    <<"f","a","l"," ","s","t","o","r","m">>,
    <<"s","t","o","r","m","\t","f","a","l">>,
    <<"s","t","o","r","m"," ","s","e","e">>,
    <<"s","e","e"," ","s","t","o","r","m">>,
    <<"s","t","o">>, <<"S">>, <<"t","h">>, <<"x","y","z">> }

ActiveSetsArgs == {NoActiveSets, ActiveSets(<<>>), ActiveSets(<<"NEO">>)}

-----------------------------------------------------------------------------
(* The cache and the search *)

Init ==
  /\ cards = EmptyStore
  /\ sets = EmptyStore
  /\ search = NoValue
  /\ inName = <<>>
  /\ outRecord = NoValue
  /\ inQuery = <<>>
  /\ outIntent = NoValue
  /\ outScore = NoValue
  /\ IoIdle

\* CardDB.cacheSet(setCode, setName, rawCards), as handleCacheSets calls it:
\* with at least one raw card, and the set code as the set name when the raw
\* cards carry no "set" field
CacheSet(setCode, rawCards) ==
  /\ search = NoValue
  /\ Len(rawCards) > 0
  /\ cards' = cacheSetCards(cards, setCode, setCode, rawCards)
  /\ sets' = cacheSetSets(sets, setCode, setCode, rawCards)
  /\ UNCHANGED <<search, inName, outRecord, inQuery, outIntent, outScore, ioVars>>

\* handleSearchCards: CardDB.searchCards(query, activeSets).  search holds
\* the call until its response has been handed to the caller.
SearchCards(query, activeSets) ==
  LET done == searchCards(cards, query, activeSets, DEFAULT_MAX_RESULTS)
  IN /\ search = NoValue
     /\ search' = [ query        |-> query,
                    activeSets   |-> activeSets,
                    intent       |-> done.intent,
                    candidates   |-> done.candidates,
                    returned     |-> done.returned,
                    transactions |-> done.transactions ]
     /\ UNCHANGED <<cards, sets, inName, outRecord, inQuery, outIntent, outScore, ioVars>>

\* the response { ok: true, cards } reaches the caller
Respond ==
  /\ search # NoValue
  /\ search' = NoValue
  /\ UNCHANGED <<cards, sets, inName, outRecord, inQuery, outIntent, outScore, ioVars>>

Next ==
  \/ \E setCode \in SetCodes, raw \in RawCards : CacheSet(setCode, <<raw>>)
  \/ \E query \in SearchQueries, activeSets \in ActiveSetsArgs :
       SearchCards(query, activeSets)
  \/ Respond

Spec == Init /\ [][Next]_vars

-----------------------------------------------------------------------------
(* The tokenizer alone: one raw card name through toCardRecord *)

InitTokens ==
  /\ cards = EmptyStore
  /\ sets = EmptyStore
  /\ search = NoValue
  /\ inName \in Names
  /\ outRecord = NoValue
  /\ inQuery = <<>>
  /\ outIntent = NoValue
  /\ outScore = NoValue
  /\ IoIdle

Derive ==
  /\ outRecord = NoValue
  /\ outRecord' = toCardRecord([emid |-> 1, name |-> inName], "NEO", "NEO")
  /\ UNCHANGED <<cards, sets, search, inName, inQuery, outIntent, outScore, ioVars>>

NextTokens == Derive

SpecTokens == InitTokens /\ [][NextTokens]_vars

-----------------------------------------------------------------------------
(* The classifier alone: one query through detectSearchIntent *)

InitIntent ==
  /\ cards = EmptyStore
  /\ sets = EmptyStore
  /\ search = NoValue
  /\ inName = <<>>
  /\ outRecord = NoValue
  /\ inQuery \in Queries
  /\ outIntent = NoValue
  /\ outScore = NoValue
  /\ IoIdle

Detect ==
  /\ outIntent = NoValue
  /\ outIntent' = detectSearchIntent(inQuery)
  /\ UNCHANGED <<cards, sets, search, inName, outRecord, inQuery, outScore, ioVars>>

NextIntent == Detect

SpecIntent == InitIntent /\ [][NextIntent]_vars

-----------------------------------------------------------------------------
(* The cache after the upgrade from database version 1 *)

\* the catalogs version 1 can have left behind: for some emids, the legacy
\* record of "Stormfighter Falcon" in set NEO
LegacyStores ==
  { [e \in D |-> LegacyRecord([emid |-> e, name |-> StormfighterFalcon], "NEO", "NEO")] :
      D \in SUBSET Emids }

\* the set metadata version 1 stored with them
LegacySets(store) ==
  IF DOMAIN store = {} THEN EmptyStore
  ELSE StorePut(EmptyStore, "NEO",
                [set_code |-> "NEO", set_name |-> "NEO",
                 card_count |-> Cardinality(DOMAIN store)])

InitLegacy ==
  /\ cards \in LegacyStores
  /\ sets = LegacySets(cards)
  /\ search = NoValue
  /\ inName = <<>>
  /\ outRecord = NoValue
  /\ inQuery = <<>>
  /\ outIntent = NoValue
  /\ outScore = NoValue
  /\ IoIdle

SpecLegacy == InitLegacy /\ [][Next]_vars

-----------------------------------------------------------------------------
(* The cache with set codes as the CACHE_SETS message carries them *)

\* handleCacheSets stores the set code as it came in the message: one set was
\* cached under a lower-case code, one under an upper-case code
MessageSetCodes == {"neo", "DMU"}
SetsRawCards == [emid : Emids, name : {StormfighterFalcon, StormSeeker}]

SetsQueries ==
  { <<"S","F">>, <<"s","t","o">>,
    <<"s","t","o","r","m"," ","f","a","l">>, <<"x","y","z">> }

\* activeSets as the overlay passes it: absent, or a list of stored set codes
\* (the result of getActiveSets)
SetsActiveSetsArgs ==
  {NoActiveSets, ActiveSets(<<>>), ActiveSets(<<"neo">>), ActiveSets(<<"DMU">>)}

NextSets ==
  \/ \E setCode \in MessageSetCodes, raw \in SetsRawCards : CacheSet(setCode, <<raw>>)
  \/ \E query \in SetsQueries, activeSets \in SetsActiveSetsArgs :
       SearchCards(query, activeSets)
  \/ Respond

SpecSets == Init /\ [][NextSets]_vars

-----------------------------------------------------------------------------
(* The search with a maxResults argument *)

MaxCap == 2

RankRawCards ==
  [emid : Emids, name : {StormfighterFalcon, SwordOfFireAndIce, The, Thopter}]

RankQueries ==
  { <<"S","F">>, <<"s","t","o">>, <<"t","h">>,
    <<"s","t","o","r","m"," ","f","a","l">> }

RankActiveSetsArgs == {NoActiveSets, ActiveSets(<<"NEO">>)}

\* the maxResults argument; DEFAULT_MAX_RESULTS is what the parameter is when
\* the caller gives none
MaxResultsArgs == (0..MaxCap) \cup {DEFAULT_MAX_RESULTS}

\* CardDB.searchCards(query, activeSets, maxResults)
SearchCardsMax(query, activeSets, maxResults) ==
  LET done == searchCards(cards, query, activeSets, maxResults)
  IN /\ search = NoValue
     /\ search' = [ query        |-> query,
                    activeSets   |-> activeSets,
                    maxResults   |-> maxResults,
                    intent       |-> done.intent,
                    candidates   |-> done.candidates,
                    returned     |-> done.returned,
                    transactions |-> done.transactions ]
     /\ UNCHANGED <<cards, sets, inName, outRecord, inQuery, outIntent, outScore, ioVars>>

NextRank ==
  \/ \E setCode \in SetCodes, raw \in RankRawCards : CacheSet(setCode, <<raw>>)
  \/ \E query \in RankQueries, activeSets \in RankActiveSetsArgs,
        maxResults \in MaxResultsArgs :
       SearchCardsMax(query, activeSets, maxResults)
  \/ Respond

SpecRank == Init /\ [][NextRank]_vars

-----------------------------------------------------------------------------
(* The scorer alone: one query and one card name through scoreMatch *)

MaxNameWords == 3
MaxQueryWords == 2

\* the words joined by single spaces
RECURSIVE JoinWords(_)
JoinWords(words) ==
  IF Len(words) = 1 THEN words[1]
  ELSE words[1] \o <<" ">> \o JoinWords(Tail(words))

WordLists(words, maxWords) == UNION { [1..n -> words] : n \in 1..maxWords }

\* card names of one to MaxNameWords words, a stop-word among them
NameWords == { <<"S","t","o","r","m">>, <<"F","i","r","e">>, <<"o","f">> }
ScoreNames == { JoinWords(w) : w \in WordLists(NameWords, MaxNameWords) }

\* queries of one or MaxQueryWords fragments: initials, letter groups, token
\* prefixes and a name prefix
QueryWords == { <<"S","F">>, <<"f">>, <<"s","t">>, <<"f","i">> }
ScoreQueries == { JoinWords(w) : w \in WordLists(QueryWords, MaxQueryWords) }

InitScore ==
  /\ cards = EmptyStore
  /\ sets = EmptyStore
  /\ search = NoValue
  /\ inName \in ScoreNames
  /\ outRecord = NoValue
  /\ inQuery \in ScoreQueries
  /\ outIntent = NoValue
  /\ outScore = NoValue
  /\ IoIdle

\* scoreMatch(detectSearchIntent(query), card) for the record toCardRecord
\* builds of the name, and for the version 1 record of the same name
Score ==
  LET intent == detectSearchIntent(inQuery)
      raw    == [emid |-> 1, name |-> inName]
      record == toCardRecord(raw, "NEO", "NEO")
  IN /\ outScore = NoValue
     /\ outIntent' = intent
     /\ outRecord' = record
     /\ outScore' = [ indexed |-> scoreMatch(intent, record),
                      legacy  |-> scoreMatch(intent, LegacyRecord(raw, "NEO", "NEO")) ]
     /\ UNCHANGED <<cards, sets, search, inName, inQuery, ioVars>>

NextScore == Score

SpecScore == InitScore /\ [][NextScore]_vars

-----------------------------------------------------------------------------
(* The search from the intent on *)

\* the intents the switch of searchCards is given: those detectSearchIntent
\* builds for the queries, and one with a strategy the classifier does not know
UnknownIntent == [strategy |-> "fuzzy", query |-> <<"s","t","o">>]
PipelineIntents ==
  { detectSearchIntent(q) : q \in SearchQueries \ {<<>>, <<" ">>} }
    \cup {UnknownIntent}

SearchIntent(intent, activeSets) ==
  LET done == searchIntent(cards, intent, activeSets, DEFAULT_MAX_RESULTS)
  IN /\ search = NoValue
     /\ search' = [ query        |-> intent.query,
                    activeSets   |-> activeSets,
                    intent       |-> done.intent,
                    candidates   |-> done.candidates,
                    returned     |-> done.returned,
                    transactions |-> done.transactions,
                    threw        |-> done.threw ]
     /\ UNCHANGED <<cards, sets, inName, outRecord, inQuery, outIntent, outScore, ioVars>>

NextPipeline ==
  \/ \E setCode \in SetCodes, raw \in RawCards : CacheSet(setCode, <<raw>>)
  \/ \E intent \in PipelineIntents, activeSets \in ActiveSetsArgs :
       SearchIntent(intent, activeSets)
  \/ Respond

SpecPipeline == Init /\ [][NextPipeline]_vars

-----------------------------------------------------------------------------
(* card-db.js: the transactions of searchCards, cacheSet, clearSet, clearAll *)

\* The index and the key range one searchCards invocation opens its cursor on
KeyPathOf(intent) ==
  CASE intent.strategy \in {"initials", "space_initials"} -> "initials"
    [] intent.strategy = "multi_token" -> "first_letter"
    [] intent.strategy = "prefix" -> "search_normalized"

InKeyRange(intent, key) ==
  CASE intent.strategy \in {"initials", "space_initials"} -> TRUE
    [] intent.strategy = "multi_token" -> key = charAt0(intent.firstToken)
    [] intent.strategy = "prefix" -> ~StrLess(key, intent.query)

\* cursor.continue(): the first entry of the range after the position last
\* (NoValue before the first entry), read from the store as it is now;
\* NoValue when the range is exhausted
CursorNext(store, intent, last) ==
  LET keyPath == KeyPathOf(intent)
      ahead == { e \in IndexedEmids(store, keyPath) :
                   /\ InKeyRange(intent, store[e][keyPath])
                   /\ \/ last = NoValue
                      \/ StrLess(last.key, store[e][keyPath])
                      \/ (store[e][keyPath] = last.key /\ e > last.emid) }
  IN IF ahead = {} THEN NoValue
     ELSE store[CHOOSE e \in ahead : \A f \in ahead : EntryBefore(store, keyPath, e, f)]

\* the test of the onsuccess callback that pushes the card to results
CursorAccepts(intent, setFilter, card) ==
  CASE intent.strategy \in {"initials", "space_initials"} ->
         /\ ~(Field(card, "initials") = <<>> \/ ~Has(card, "progressive_initials"))
         /\ (startsWith(card.initials, intent.query)
               \/ includes(card.progressive_initials, intent.query))
         /\ PassesSetFilter(setFilter, card)
    [] intent.strategy = "multi_token" ->
         /\ Has(card, "tokens")
         /\ matchesTokenPrefixes(intent.tokens, card.tokens)
         /\ PassesSetFilter(setFilter, card)
    [] intent.strategy = "prefix" -> PassesSetFilter(setFilter, card)

\* the scoring, sort and cut of searchCards on the results of the retrieval
rankResults(intent, results, maxResults) ==
  LET scored == [i \in 1..Len(results) |->
                   [card |-> results[i], score |-> scoreMatch(intent, results[i])]]
      top    == slice0(SortByScore(scored, Len(scored)), maxResults)
  IN [i \in 1..Len(top) |-> top[i].card]

\* the state of the invocation when searchCards has created its readonly
\* transaction and made the cursor request (or has returned at once for an
\* empty query): the transaction is queued until it may start.  ahead says
\* that it was created before the readwrite transaction there is, if any;
\* catalogs is the set of committed catalogs the invocation has lived through.
searchStart(query, activeSets, committed, ahead) ==
  IF query = <<>> \/ trim(query) = <<>> THEN
    [ query |-> query, activeSets |-> activeSets, intent |-> NoValue,
      phase |-> "done", last |-> NoValue, results |-> <<>>, returned |-> <<>>,
      catalogs |-> {committed}, ahead |-> ahead ]
  ELSE
    [ query |-> query, activeSets |-> activeSets,
      intent |-> detectSearchIntent(query),
      phase |-> "queued", last |-> NoValue, results |-> <<>>, returned |-> <<>>,
      catalogs |-> {committed}, ahead |-> ahead ]

\* every invocation pushes to one results array
cursorStep_SharedResults(run, p, store) ==
  LET inv       == run[p]
      setFilter == SetFilterOf(inv.activeSets)
      card      == CursorNext(store, inv.intent, inv.last)
      atEnd     == \/ card = NoValue
                   \/ /\ inv.intent.strategy = "prefix"
                      /\ ~startsWith(card.search_normalized, inv.intent.query)
  IN IF atEnd
     THEN [run EXCEPT ![p].phase = "done",
                      ![p].returned =
                        rankResults(inv.intent, inv.results, DEFAULT_MAX_RESULTS)]
     ELSE [q \in DOMAIN run |->
             IF q = p
             THEN [inv EXCEPT
                     !.last = [key |-> card[KeyPathOf(inv.intent)], emid |-> card.emid],
                     !.results = IF CursorAccepts(inv.intent, setFilter, card)
                                 THEN Append(inv.results, card) ELSE inv.results]
             ELSE IF run[q] # NoValue /\ run[q].phase = "cursor"
                     /\ CursorAccepts(inv.intent, setFilter, card)
                  THEN [run[q] EXCEPT !.results = Append(run[q].results, card)]
                  ELSE run[q]]

\* one onsuccess callback of the cursor request of invocation p: the end of the
\* range resolves the promise and searchCards ranks its results; otherwise the
\* card is tested, pushed to the results of this invocation, and the cursor
\* continues
cursorStep(run, p, store) ==
  LET inv       == run[p]
      setFilter == SetFilterOf(inv.activeSets)
      card      == CursorNext(store, inv.intent, inv.last)
      atEnd     == \/ card = NoValue
                   \/ /\ inv.intent.strategy = "prefix"
                      /\ ~startsWith(card.search_normalized, inv.intent.query)
  IN IF atEnd
     THEN [run EXCEPT ![p].phase = "done",
                      ![p].returned =
                        rankResults(inv.intent, inv.results, DEFAULT_MAX_RESULTS)]
     ELSE [run EXCEPT
             ![p].last = [key |-> card[KeyPathOf(inv.intent)], emid |-> card.emid],
             ![p].results = IF CursorAccepts(inv.intent, setFilter, card)
                            THEN Append(inv.results, card) ELSE inv.results]

\* Transactions of overlapping scopes start in the order of their creation
\* when one of them is readwrite: a readonly transaction on "cards" waits for
\* the readwrite transaction on ["cards", "sets"] created before it, and the
\* readwrite transaction waits for every readonly transaction created before
\* it that has not finished
ReadonlyMayStart_NoLock(w, ahead) == TRUE

ReadonlyMayStart(w, ahead) ==
  IF ahead \/ w = NoValue THEN TRUE ELSE w.phase \notin {"queued", "active"}

ReadwriteMayStart(run) ==
  \A p \in DOMAIN run :
    IF run[p] = NoValue THEN TRUE
    ELSE ~(run[p].ahead /\ run[p].phase \in {"queued", "cursor"})

\* the catalog as of the last committed transaction
Committed(store, w) ==
  IF w # NoValue /\ w.phase = "active" THEN w.before ELSE store

\* a readwrite transaction of cacheSet, clearSet or clearAll that has been
\* created and is queued until it may start; before and beforeSets are the
\* stores it starts on
writeStart(op, setCode, rawCards, store, setStore) ==
  [ op |-> op, setCode |-> setCode, rawCards |-> rawCards, next |-> 1,
    phase |-> "queued", before |-> store, beforeSets |-> setStore ]

\* the keys of the cards of one set: the range IDBKeyRange.only(setCode) of
\* the by_set_code index, which the cursor of clearSet visits in emid order
EmidsOfSet(store, setCode) ==
  { e \in DOMAIN store : store[e].set_code = setCode }

\* one request of the open readwrite transaction.  phase "committed": the
\* transaction completed and the call resolves; phase "failed": the call
\* rejected, and the transaction committed the requests made before.
\*   cacheSet: one put per raw card, then the put of the set metadata.
\*   clearSet: the cursor deletes the first card of the set; awaiting
\*     cursor.continue(), which returns undefined, throws in promisify before
\*     the next card is visited and before setStore.delete.
\*   clearAll: cards.clear(), then sets.clear().
writeStep(w, store, setStore) ==
  CASE w.op = "cacheSet" ->
         IF w.next <= Len(w.rawCards)
         THEN [ cards |-> StorePut(store, w.rawCards[w.next].emid,
                                   toCardRecord(w.rawCards[w.next], w.setCode, w.setCode)),
                sets |-> setStore,
                writing |-> [w EXCEPT !.next = w.next + 1] ]
         ELSE [ cards |-> store,
                sets |-> cacheSetSets(setStore, w.setCode, w.setCode, w.rawCards),
                writing |-> [w EXCEPT !.phase = "committed"] ]
    [] w.op = "clearSet" ->
         LET ofSet == EmidsOfSet(store, w.setCode)
             first == CHOOSE e \in ofSet : \A f \in ofSet : e <= f
         IN IF w.next = 1 /\ ofSet = {}
            THEN [ cards |-> store,
                   sets |-> StoreDelete(setStore, w.setCode),
                   writing |-> [w EXCEPT !.phase = "committed"] ]
            ELSE IF w.next = 1
            THEN [ cards |-> StoreDelete(store, first),
                   sets |-> setStore,
                   writing |-> [w EXCEPT !.next = 2] ]
            ELSE [ cards |-> store,
                   sets |-> setStore,
                   writing |-> [w EXCEPT !.phase = "failed"] ]
    [] w.op = "clearAll" ->
         IF w.next = 1
         THEN [ cards |-> EmptyStore, sets |-> setStore,
                writing |-> [w EXCEPT !.next = 2] ]
         ELSE [ cards |-> store, sets |-> EmptyStore,
                writing |-> [w EXCEPT !.phase = "committed"] ]

\* The card lists the API serves for the two sets: NEO with two cards, of
\* which a later download may bring one only, and DMU with a reprint
NeoFalcon == [emid |-> 1, name |-> StormfighterFalcon]
NeoSeeker == [emid |-> 2, name |-> StormSeeker]
DmuSeeker == [emid |-> 3, name |-> StormSeeker]
TxRawLists(setCode) ==
  IF setCode = "NEO"
  THEN { <<NeoFalcon, NeoSeeker>>, <<NeoFalcon>>, <<NeoSeeker>> }
  ELSE { <<DmuSeeker>> }
TxQueries == { <<"s","t","o">>, <<"S","F">> }

\* the searchCards invocations that can be in progress together
Invocations == {"first", "second"}

InitTx ==
  /\ cards = EmptyStore
  /\ sets = EmptyStore
  /\ search = NoValue
  /\ inName = <<>>
  /\ outRecord = NoValue
  /\ inQuery = <<>>
  /\ outIntent = NoValue
  /\ outScore = NoValue
  /\ running = [p \in Invocations |-> NoValue]
  /\ writing = NoValue
  /\ limiter = NoValue
  /\ request = NoValue
  /\ overlay = NoValue
  /\ worker = NoValue
  /\ now = 0

\* The result of a finished call is handed to its caller by the promise
\* continuations of the last callback, before any other event is dispatched:
\* while a result is held, only its hand-over happens
NothingHeld ==
  /\ \A p \in Invocations :
       IF running[p] = NoValue THEN TRUE ELSE running[p].phase # "done"
  /\ IF writing = NoValue THEN TRUE ELSE writing.phase \in {"queued", "active"}

notDbVars ==
  <<search, inName, outRecord, inQuery, outIntent, outScore,
    limiter, request, overlay, worker, now>>

\* handleSearchCards calls CardDB.searchCards(query): the readonly transaction
\* is created and the cursor request is made
TxSearchStart(p, query) ==
  /\ NothingHeld
  /\ running[p] = NoValue
  /\ running' = [running EXCEPT
                   ![p] = searchStart(query, NoActiveSets, Committed(cards, writing),
                                      writing = NoValue)]
  /\ UNCHANGED <<cards, sets, writing, notDbVars>>

\* the readonly transaction of invocation p starts
TxSearchOpen(p) ==
  /\ NothingHeld
  /\ running[p] # NoValue
  /\ running[p].phase = "queued"
  /\ ReadonlyMayStart(writing, running[p].ahead)
  /\ running' = [running EXCEPT ![p].phase = "cursor"]
  /\ UNCHANGED <<cards, sets, writing, notDbVars>>

\* one cursor callback of invocation p
TxSearchStep(p) ==
  /\ NothingHeld
  /\ running[p] # NoValue
  /\ running[p].phase = "cursor"
  /\ running' = cursorStep(running, p, cards)
  /\ UNCHANGED <<cards, sets, writing, notDbVars>>

\* the response of invocation p reaches its caller
TxSearchRespond(p) ==
  /\ running[p] # NoValue
  /\ running[p].phase = "done"
  /\ running' = [running EXCEPT ![p] = NoValue]
  /\ UNCHANGED <<cards, sets, writing, notDbVars>>

\* cacheSet, clearSet or clearAll creates its readwrite transaction and makes
\* its first requests
TxWriteStart(op, setCode, rawCards) ==
  /\ NothingHeld
  /\ writing = NoValue
  /\ writing' = writeStart(op, setCode, rawCards, cards, sets)
  /\ running' = [p \in Invocations |->
                   IF running[p] = NoValue THEN NoValue
                   ELSE [running[p] EXCEPT !.ahead = TRUE]]
  /\ UNCHANGED <<cards, sets, notDbVars>>

\* the readwrite transaction starts
TxWriteOpen ==
  /\ NothingHeld
  /\ writing # NoValue
  /\ writing.phase = "queued"
  /\ ReadwriteMayStart(running)
  /\ writing' = [writing EXCEPT !.phase = "active"]
  /\ UNCHANGED <<cards, sets, running, notDbVars>>

\* one request of the readwrite transaction; when it was the last one the
\* transaction commits, and every invocation still reading has lived through
\* one more committed catalog
TxWriteStep ==
  /\ NothingHeld
  /\ writing # NoValue
  /\ writing.phase = "active"
  /\ LET after == writeStep(writing, cards, sets)
     IN /\ cards' = after.cards
        /\ sets' = after.sets
        /\ writing' = after.writing
        /\ running' =
             [p \in DOMAIN running |->
                IF after.writing.phase # "active" /\ running[p] # NoValue
                THEN [running[p] EXCEPT !.catalogs = @ \cup {after.cards}]
                ELSE running[p]]
  /\ UNCHANGED notDbVars

\* the response of the write reaches its caller
TxWriteRespond ==
  /\ writing # NoValue
  /\ writing.phase \in {"committed", "failed"}
  /\ writing' = NoValue
  /\ UNCHANGED <<cards, sets, running, notDbVars>>

NextTx ==
  \/ \E p \in Invocations, query \in TxQueries : TxSearchStart(p, query)
  \/ \E p \in Invocations : TxSearchOpen(p)
  \/ \E p \in Invocations : TxSearchStep(p)
  \/ \E p \in Invocations : TxSearchRespond(p)
  \/ \E setCode \in SetCodes : \E rawCards \in TxRawLists(setCode) :
       TxWriteStart("cacheSet", setCode, rawCards)
  \/ \E setCode \in SetCodes : TxWriteStart("clearSet", setCode, <<>>)
  \/ TxWriteStart("clearAll", "", <<>>)
  \/ TxWriteOpen
  \/ TxWriteStep
  \/ TxWriteRespond

SpecTx == InitTx /\ [][NextTx]_vars

-----------------------------------------------------------------------------
(* card-name-utils.js: RateLimiter, as echo-api.js constructs it *)

\* new RateLimiter(2); the clock of the model counts ticks of TickMs
\* milliseconds
requestsPerSecond == 2
TickMs == 250
minInterval == (1000 \div requestsPerSecond) \div TickMs

MaxJobs == 3
MaxTime == 7

\* the constructor: _lastTime = 0, _queue = Promise.resolve().  jobs lists the
\* functions passed to schedule, in the order of the calls: each is one more
\* link of the _queue chain.  started is the time its execution began, -1
\* while it has not; result is the value or the error its promise settled
\* with.
newRateLimiter == [lastTime |-> 0, jobs |-> <<>>]

\* schedule(fn): _queue = _queue.then(() => this._wait()).then(fn)
schedule(lim) ==
  [lim EXCEPT !.jobs = Append(@, [status |-> "queued", started |-> -1, due |-> 0,
                                  result |-> ""])]

\* job k is the next link of the chain: its predecessor has settled
IsNext(lim, k) ==
  /\ k \in 1..Len(lim.jobs)
  /\ lim.jobs[k].status = "queued"
  /\ k > 1 => lim.jobs[k - 1].status \in {"resolved", "rejected"}

\* _wait sleeps for nothing
waitDelay_None(lastTime, t) == 0

\* the delay _wait sleeps for: minInterval - elapsed when elapsed < minInterval
waitDelay(lastTime, t) ==
  LET elapsed == t - lastTime
  IN IF elapsed < minInterval THEN minInterval - elapsed ELSE 0

\* the chain reaches job k.  After a rejected predecessor both then-callbacks
\* are skipped and the promise of job k rejects with the same error; otherwise
\* _wait runs: it sleeps, or sets _lastTime and fn starts.
chainStep(lim, k, t) ==
  IF k > 1 /\ lim.jobs[k - 1].status = "rejected"
  THEN [lim EXCEPT !.jobs[k].status = "rejected",
                   !.jobs[k].result = lim.jobs[k - 1].result]
  ELSE IF waitDelay(lim.lastTime, t) > 0
  THEN [lim EXCEPT !.jobs[k].status = "waiting",
                   !.jobs[k].due = t + waitDelay(lim.lastTime, t)]
  ELSE [lim EXCEPT !.lastTime = t,
                   !.jobs[k].status = "running",
                   !.jobs[k].started = t]

\* the timer of _wait fires: _lastTime = performance.now(), and fn starts
timerFires(lim, k, t) ==
  [lim EXCEPT !.lastTime = t,
              !.jobs[k].status = "running",
              !.jobs[k].started = t]

\* the promise fn returned settles
settle(lim, k, outcome) == [lim EXCEPT !.jobs[k].status = outcome]

InitLimiter ==
  /\ cards = EmptyStore
  /\ sets = EmptyStore
  /\ search = NoValue
  /\ inName = <<>>
  /\ outRecord = NoValue
  /\ inQuery = <<>>
  /\ outIntent = NoValue
  /\ outScore = NoValue
  /\ running = <<>>
  /\ writing = NoValue
  /\ limiter = newRateLimiter
  /\ request = NoValue
  /\ overlay = NoValue
  /\ worker = NoValue
  /\ now = 0

\* a caller passes a function to limiter.schedule
Schedule ==
  /\ Len(limiter.jobs) < MaxJobs
  /\ limiter' = schedule(limiter)
  /\ UNCHANGED <<coreVars, running, writing, request, overlay, worker, now>>

\* the promise chain reaches job k
ChainStep(k) ==
  /\ IsNext(limiter, k)
  /\ limiter' = chainStep(limiter, k, now)
  /\ UNCHANGED <<coreVars, running, writing, request, overlay, worker, now>>

\* the setTimeout of _wait fires, at its due time or later
TimerFires(k) ==
  /\ k \in 1..Len(limiter.jobs)
  /\ limiter.jobs[k].status = "waiting"
  /\ now >= limiter.jobs[k].due
  /\ limiter' = timerFires(limiter, k, now)
  /\ UNCHANGED <<coreVars, running, writing, request, overlay, worker, now>>

\* the function of job k ends: its promise fulfils or rejects
Settle(k, outcome) ==
  /\ k \in 1..Len(limiter.jobs)
  /\ limiter.jobs[k].status = "running"
  /\ limiter' = settle(limiter, k, outcome)
  /\ UNCHANGED <<coreVars, running, writing, request, overlay, worker, now>>

\* performance.now() advances
Tick ==
  /\ now < MaxTime
  /\ now' = now + 1
  /\ UNCHANGED <<coreVars, running, writing, limiter, request, overlay, worker>>

NextLimiter ==
  \/ Schedule
  \/ \E k \in 1..MaxJobs : ChainStep(k)
  \/ \E k \in 1..MaxJobs : TimerFires(k)
  \/ \E k \in 1..MaxJobs, outcome \in {"resolved", "rejected"} : Settle(k, outcome)
  \/ Tick

SpecLimiter == InitLimiter /\ [][NextLimiter]_vars

-----------------------------------------------------------------------------
(* echo-api.js: request *)

MAX_RETRIES == 3

\* what one fetchWithTimeout call ends with: a response (ok, 429, 5xx, another
\* status), the AbortError of the timeout, or a network error
HttpResponses == {"ok", "429", "5xx", "4xx"}
FetchErrors == {"AbortError", "network"}
FetchOutcomes == HttpResponses \cup FetchErrors

\* the promise of fetchWithTimeout settles
fetchSettles(lim, k, outcome) ==
  [lim EXCEPT !.jobs[k].status =
                 IF outcome \in FetchErrors THEN "rejected" ELSE "resolved",
              !.jobs[k].result = outcome]

\* request(method, endpoint) at the head of its loop; jobs lists the limiter
\* job of each attempt made
newRequest == [attempt |-> 0, phase |-> "loop", jobs |-> <<>>, error |-> ""]

\* the body of the loop after `await limiter.schedule(...)` has settled with
\* outcome: return, wait and continue, or throw
afterAwait(req, outcome) ==
  CASE outcome = "ok" -> [req EXCEPT !.phase = "returned"]
    [] outcome \in {"429", "5xx"} -> [req EXCEPT !.phase = "backoff"]
    [] outcome = "4xx" -> [req EXCEPT !.phase = "thrown", !.error = "HTTP"]
    [] outcome = "AbortError" -> [req EXCEPT !.phase = "backoff"]
    [] outcome = "network" ->
         IF req.attempt = MAX_RETRIES - 1
         THEN [req EXCEPT !.phase = "thrown", !.error = "network"]
         ELSE [req EXCEPT !.phase = "backoff"]

\* the back-off timer fires: attempt++, and the loop test; after the last
\* attempt the function throws "Failed after MAX_RETRIES retries"
afterBackoff(req) ==
  IF req.attempt + 1 < MAX_RETRIES
  THEN [req EXCEPT !.attempt = @ + 1, !.phase = "loop"]
  ELSE [req EXCEPT !.attempt = @ + 1, !.phase = "thrown", !.error = "Failed after"]

\* a caller of the API client calls request
ReqStart ==
  /\ request = NoValue
  /\ request' = newRequest
  /\ UNCHANGED <<coreVars, running, writing, limiter, overlay, worker, now>>

\* await limiter.schedule(() => fetchWithTimeout(url, fetchOpts))
ReqSchedule ==
  /\ request # NoValue
  /\ request.phase = "loop"
  /\ limiter' = schedule(limiter)
  /\ request' = [request EXCEPT !.phase = "awaiting",
                                !.jobs = Append(@, Len(limiter.jobs) + 1)]
  /\ UNCHANGED <<coreVars, running, writing, overlay, worker, now>>

\* the fetch of the running job ends
FetchSettles(k, outcome) ==
  /\ k \in 1..Len(limiter.jobs)
  /\ limiter.jobs[k].status = "running"
  /\ limiter' = fetchSettles(limiter, k, outcome)
  /\ UNCHANGED <<coreVars, running, writing, request, overlay, worker, now>>

\* the awaited promise has settled and the loop body goes on
ReqAfterAwait ==
  /\ request # NoValue
  /\ request.phase = "awaiting"
  /\ LET job == limiter.jobs[request.jobs[Len(request.jobs)]]
     IN /\ job.status \in {"resolved", "rejected"}
        /\ request' = afterAwait(request, job.result)
  /\ UNCHANGED <<coreVars, running, writing, limiter, overlay, worker, now>>

\* the setTimeout of the back-off fires
ReqAfterBackoff ==
  /\ request # NoValue
  /\ request.phase = "backoff"
  /\ request' = afterBackoff(request)
  /\ UNCHANGED <<coreVars, running, writing, limiter, overlay, worker, now>>

NextRequest ==
  \/ ReqStart
  \/ ReqSchedule
  \/ \E k \in 1..MaxJobs : ChainStep(k)
  \/ \E k \in 1..MaxJobs : TimerFires(k)
  \/ \E k \in 1..MaxJobs, outcome \in FetchOutcomes : FetchSettles(k, outcome)
  \/ ReqAfterAwait
  \/ ReqAfterBackoff
  \/ Tick

SpecRequest == InitLimiter /\ [][NextRequest]_vars

-----------------------------------------------------------------------------
(* The overlay: the search box, its debounce timer and doSearch *)

\* setTimeout(() => doSearch(query), 100); the clock of the overlay counts
\* ticks of OverlayTickMs milliseconds
DebounceMs == 100
OverlayTickMs == 50
DebounceTicks == DebounceMs \div OverlayTickMs

\* CardDB.getActiveSets(): the codes of the sets whose active flag is not false
RECURSIVE ListOf(_)
ListOf(codes) ==
  IF codes = {} THEN <<>>
  ELSE LET code == CHOOSE c \in codes : TRUE
       IN <<code>> \o ListOf(codes \ {code})

getActiveSets(setStore) ==
  ListOf({ code \in DOMAIN setStore : setStore[code].active # FALSE })

\* the cards of the SEARCH_CARDS response to doSearch(query)
responseCards(store, setStore, query) ==
  searchCards(store, query, ActiveSets(getActiveSets(setStore)),
              DEFAULT_MAX_RESULTS).returned

\* The overlay when it opens.  timers is the set of pending setTimeout
\* callbacks and debounceTimer the one the variable refers to; inflight lists
\* the doSearch calls that await a response, in the order they were issued;
\* latest is the query of the last doSearch since the results were cleared;
\* sent describes the last doSearch call: its query, the trimmed input at that
\* moment, and the time since the input last changed; late says that a
\* response arrived after the input was last changed.
newOverlay ==
  [ input |-> <<>>, lastChange |-> 0, debounceTimer |-> NoValue, timers |-> {},
    inflight |-> <<>>, results |-> <<>>, latest |-> NoValue, sent |-> NoValue,
    late |-> FALSE ]

\* clearResults()
clearResults(o) == [o EXCEPT !.results = <<>>, !.latest = NoValue]

\* the "input" listener of searchInput: clearTimeout(debounceTimer), then
\* clearResults() for an empty trimmed value, else a new timer
onInput(o, value, t) ==
  LET query == trim(value)
      typed == [o EXCEPT !.input = value, !.lastChange = t, !.late = FALSE,
                         !.timers = @ \ {o.debounceTimer}]
  IN IF query = <<>> THEN clearResults(typed)
     ELSE LET timer == [query |-> query, due |-> t + DebounceTicks]
          IN [typed EXCEPT !.timers = @ \cup {timer}, !.debounceTimer = timer]

\* the "keydown" listener on Escape, when it does not collapse the overlay:
\* searchInput.value = ""; clearResults().  Assigning value fires no "input"
\* event, and the listener leaves debounceTimer alone.
onEscape(o, t) ==
  clearResults([o EXCEPT !.input = <<>>, !.late = FALSE,
                         !.lastChange = IF o.input = <<>> THEN @ ELSE t])

\* the timer callback: doSearch(query) sends GET_ACTIVE_SETS
onTimer(o, timer, t) ==
  [o EXCEPT !.timers = @ \ {timer},
            !.inflight = Append(@, [query |-> timer.query, phase |-> "sets"]),
            !.latest = timer.query,
            !.sent = [query |-> timer.query, input |-> trim(o.input),
                      quiet |-> t - o.lastChange]]

\* the response to GET_ACTIVE_SETS arrives: doSearch sends SEARCH_CARDS
onActiveSets(o, i) == [o EXCEPT !.inflight[i].phase = "cards"]

\* the response to SEARCH_CARDS arrives: results = result.cards || []
onCards(o, i, store, setStore) ==
  [o EXCEPT !.results = responseCards(store, setStore, o.inflight[i].query),
            !.late = TRUE,
            !.inflight = SubSeq(@, 1, i - 1) \o SubSeq(@, i + 1, Len(@))]

\* what the user can make of the search box
OverlayInputs == { <<>>, <<" ">>, <<"s","t","o">>, <<"S","F">> }

\* the timers the listener can set
Timers == [query : { trim(value) : value \in OverlayInputs }, due : 0..(MaxTime + DebounceTicks)]

\* the overlay opens on a catalog with the set NEO cached and active
InitOverlay ==
  /\ cards = cacheSetCards(EmptyStore, "NEO", "NEO", <<NeoFalcon, NeoSeeker>>)
  /\ sets = cacheSetSets(EmptyStore, "NEO", "NEO", <<NeoFalcon, NeoSeeker>>)
  /\ search = NoValue
  /\ inName = <<>>
  /\ outRecord = NoValue
  /\ inQuery = <<>>
  /\ outIntent = NoValue
  /\ outScore = NoValue
  /\ running = <<>>
  /\ writing = NoValue
  /\ limiter = NoValue
  /\ request = NoValue
  /\ overlay = newOverlay
  /\ worker = NoValue
  /\ now = 0

\* the user changes the text of the search box
Input(value) ==
  /\ value # overlay.input
  /\ overlay' = onInput(overlay, value, now)
  /\ UNCHANGED <<coreVars, running, writing, limiter, request, worker, now>>

\* the user presses Escape with text in the box or results shown
Escape ==
  /\ ~(overlay.input = <<>> /\ overlay.results = <<>>)
  /\ overlay' = onEscape(overlay, now)
  /\ UNCHANGED <<coreVars, running, writing, limiter, request, worker, now>>

\* a pending timer fires, at its due time or later
DebounceFires(timer) ==
  /\ timer \in overlay.timers
  /\ now >= timer.due
  /\ overlay' = onTimer(overlay, timer, now)
  /\ UNCHANGED <<coreVars, running, writing, limiter, request, worker, now>>

\* the responses of the service worker arrive, in any order
ActiveSetsArrive(i) ==
  /\ i \in 1..Len(overlay.inflight)
  /\ overlay.inflight[i].phase = "sets"
  /\ overlay' = onActiveSets(overlay, i)
  /\ UNCHANGED <<coreVars, running, writing, limiter, request, worker, now>>

CardsArrive(i) ==
  /\ i \in 1..Len(overlay.inflight)
  /\ overlay.inflight[i].phase = "cards"
  /\ overlay' = onCards(overlay, i, cards, sets)
  /\ UNCHANGED <<coreVars, running, writing, limiter, request, worker, now>>

NextOverlay ==
  \/ \E value \in OverlayInputs : Input(value)
  \/ Escape
  \/ \E timer \in Timers : DebounceFires(timer)
  \/ \E i \in 1..MaxTime : ActiveSetsArrive(i)
  \/ \E i \in 1..MaxTime : CardsArrive(i)
  \/ Tick

SpecOverlay == InitOverlay /\ [][NextOverlay]_vars

-----------------------------------------------------------------------------
(* service-worker.js: token, init, and the LOGIN, LOGOUT, ADD_CARD and
   CACHE_SETS handlers *)

MaxPosition == 2

\* token = null; the other tokens are "t1", found in storage from an earlier
\* login, and "t2", obtained by a LOGIN
NoToken == ""

\* The service worker as it starts: `let token = null`, and init() has called
\* EchoAPI.getStoredToken(), whose storage.get will deliver initRead.
\* stored is the echoToken of the extension storage, position the "position"
\* entry of the state store; logout is "removing" while handleLogout awaits
\* storage.remove; loggedOut says that a LOGOUT was handled and no LOGIN
\* succeeded since; response is the answer of the handler that ended last.
newWorker(storedToken) ==
  [ token |-> NoToken, stored |-> storedToken, initRead |-> storedToken,
    initDone |-> FALSE, logout |-> "none", loggedOut |-> FALSE,
    position |-> 1, response |-> NoValue ]

\* init(): token = await EchoAPI.getStoredToken()
initRestores(w) == [w EXCEPT !.token = w.initRead, !.initDone = TRUE]

\* handleLogin: EchoAPI.login stores the token, then token = result.token
handleLogin(w, outcome) ==
  IF outcome = "ok"
  THEN [w EXCEPT !.stored = "t2", !.token = "t2", !.loggedOut = FALSE,
                 !.response = [type |-> "LOGIN", ok |-> TRUE]]
  ELSE [w EXCEPT !.response = [type |-> "LOGIN", ok |-> FALSE]]

\* handleLogout up to its await: token = null; storage.remove("echoToken")
logoutStart(w) == [w EXCEPT !.token = NoToken, !.stored = NoToken, !.logout = "removing"]

\* handleLogout after its await: return { ok: true }
logoutEnd(w) ==
  [w EXCEPT !.logout = "none", !.loggedOut = TRUE,
            !.response = [type |-> "LOGOUT", ok |-> TRUE]]

\* the position is persisted only when the note was attached
handleAddCard_NoteRequired(w, position, addOutcome, noteOutcome) ==
  LET asked == [ type |-> "ADD_CARD", tokenHeld |-> w.token, position |-> position,
                 positionBefore |-> w.position, changedCache |-> FALSE ]
  IN IF w.token = NoToken
     THEN [w EXCEPT !.response = asked @@
            [ok |-> FALSE, error |-> "Not authenticated", calledApi |-> FALSE,
             addSucceeded |-> FALSE, noteOk |-> FALSE, newPosition |-> 0]]
     ELSE IF addOutcome = "fail" \/ ~(addOutcome = "id" /\ noteOutcome = "ok")
     THEN [w EXCEPT !.response = asked @@
            [ok |-> FALSE, error |-> "request failed", calledApi |-> TRUE,
             addSucceeded |-> addOutcome # "fail", noteOk |-> FALSE, newPosition |-> 0]]
     ELSE [w EXCEPT !.position = position + 1,
                    !.response = asked @@
            [ok |-> TRUE, error |-> "", calledApi |-> TRUE, addSucceeded |-> TRUE,
             noteOk |-> TRUE, newPosition |-> position + 1]]

\* handleAddCard({emid, ..., position}).  addOutcome: addInventoryBatch
\* returned a result with an inventory id ("id"), without one ("noId"), or
\* threw ("fail"); noteOutcome: createNote returned or threw.
handleAddCard(w, position, addOutcome, noteOutcome) ==
  LET asked == [ type |-> "ADD_CARD", tokenHeld |-> w.token, position |-> position,
                 positionBefore |-> w.position, changedCache |-> FALSE ]
  IN IF w.token = NoToken
     THEN [w EXCEPT !.response = asked @@
            [ok |-> FALSE, error |-> "Not authenticated", calledApi |-> FALSE,
             addSucceeded |-> FALSE, noteOk |-> FALSE, newPosition |-> 0]]
     ELSE IF addOutcome = "fail"
     THEN [w EXCEPT !.response = asked @@
            [ok |-> FALSE, error |-> "request failed", calledApi |-> TRUE,
             addSucceeded |-> FALSE, noteOk |-> FALSE, newPosition |-> 0]]
     ELSE [w EXCEPT !.position = position + 1,
                    !.response = asked @@
            [ok |-> TRUE, error |-> "", calledApi |-> TRUE, addSucceeded |-> TRUE,
             noteOk |-> (addOutcome = "id" /\ noteOutcome = "ok"),
             newPosition |-> position + 1]]

\* the answer of handleCacheSets({setCodes: [setCode]}); fetched says whether
\* getSetAll returned the cards of the set
cacheSetsResponse(w, fetched) ==
  IF w.token = NoToken
  THEN [ type |-> "CACHE_SETS", tokenHeld |-> w.token, ok |-> FALSE,
         error |-> "Not authenticated", calledApi |-> FALSE, changedCache |-> FALSE ]
  ELSE [ type |-> "CACHE_SETS", tokenHeld |-> w.token, ok |-> TRUE,
         error |-> "", calledApi |-> TRUE, changedCache |-> fetched ]

InitWorker ==
  /\ cards = EmptyStore
  /\ sets = EmptyStore
  /\ search = NoValue
  /\ inName = <<>>
  /\ outRecord = NoValue
  /\ inQuery = <<>>
  /\ outIntent = NoValue
  /\ outScore = NoValue
  /\ running = <<>>
  /\ writing = NoValue
  /\ limiter = NoValue
  /\ request = NoValue
  /\ overlay = NoValue
  /\ \E storedToken \in {NoToken, "t1"} : worker = newWorker(storedToken)
  /\ now = 0

workerIdle == worker.response = NoValue

\* the storage.get of init() delivers
InitRestores ==
  /\ workerIdle
  /\ ~worker.initDone
  /\ worker' = initRestores(worker)
  /\ UNCHANGED <<coreVars, running, writing, limiter, request, overlay, now>>

Login(outcome) ==
  /\ workerIdle
  /\ worker.logout = "none"
  /\ worker' = handleLogin(worker, outcome)
  /\ UNCHANGED <<coreVars, running, writing, limiter, request, overlay, now>>

LogoutStart ==
  /\ workerIdle
  /\ worker.logout = "none"
  /\ worker' = logoutStart(worker)
  /\ UNCHANGED <<coreVars, running, writing, limiter, request, overlay, now>>

LogoutEnd ==
  /\ workerIdle
  /\ worker.logout = "removing"
  /\ worker' = logoutEnd(worker)
  /\ UNCHANGED <<coreVars, running, writing, limiter, request, overlay, now>>

AddCard(position, addOutcome, noteOutcome) ==
  /\ workerIdle
  /\ worker' = handleAddCard(worker, position, addOutcome, noteOutcome)
  /\ UNCHANGED <<coreVars, running, writing, limiter, request, overlay, now>>

\* handleCacheSets for one set code: getSetAll, then CardDB.cacheSet
CacheSets(setCode, rawCards, fetched) ==
  LET stores == worker.token # NoToken /\ fetched
  IN /\ workerIdle
     /\ worker' = [worker EXCEPT !.response = cacheSetsResponse(worker, fetched)]
     /\ cards' = IF stores THEN cacheSetCards(cards, setCode, setCode, rawCards) ELSE cards
     /\ sets' = IF stores THEN cacheSetSets(sets, setCode, setCode, rawCards) ELSE sets
     /\ UNCHANGED <<search, inName, outRecord, inQuery, outIntent, outScore,
                    running, writing, limiter, request, overlay, now>>

\* the answer reaches the sender of the message
Answer ==
  /\ ~workerIdle
  /\ worker' = [worker EXCEPT !.response = NoValue]
  /\ UNCHANGED <<coreVars, running, writing, limiter, request, overlay, now>>

NextWorker ==
  \/ InitRestores
  \/ \E outcome \in {"ok", "fail"} : Login(outcome)
  \/ LogoutStart
  \/ LogoutEnd
  \/ \E position \in 1..MaxPosition, addOutcome \in {"id", "noId", "fail"},
        noteOutcome \in {"ok", "fail"} : AddCard(position, addOutcome, noteOutcome)
  \/ \E setCode \in SetCodes, fetched \in BOOLEAN :
       \E rawCards \in TxRawLists(setCode) : CacheSets(setCode, rawCards, fetched)
  \/ Answer

SpecWorker == InitWorker /\ [][NextWorker]_vars

-----------------------------------------------------------------------------
(* The overlay's flow state machine: login -> cache -> ready *)

PHASE_LOGIN == "login"
PHASE_CACHE == "cache"
PHASE_READY == "ready"

\* a whole call of cacheSet, clearSet or clearAll: the requests of its
\* transaction up to the commit or the rejection
RECURSIVE runWrite(_, _, _)
runWrite(w, store, setStore) ==
  IF w.phase \in {"committed", "failed"}
  THEN [cards |-> store, sets |-> setStore, ok |-> w.phase = "committed"]
  ELSE LET step == writeStep(w, store, setStore)
       IN runWrite(step.writing, step.cards, step.sets)

callWrite(op, setCode, rawCards, store, setStore) ==
  runWrite([writeStart(op, setCode, rawCards, store, setStore) EXCEPT !.phase = "active"],
           store, setStore)

\* the overlay's flags when the content script starts
newFlow ==
  [ loaded |-> FALSE, hasAuth |-> FALSE, hasCachedSets |-> FALSE,
    currentPhase |-> PHASE_LOGIN, searchDisabled |-> TRUE, cachedSetsMap |-> {} ]

determinePhase(o) ==
  IF ~o.hasAuth THEN PHASE_LOGIN
  ELSE IF ~o.hasCachedSets THEN PHASE_CACHE
  ELSE PHASE_READY

\* setPhase(phase): currentPhase = phase; applyPhase()
setPhase(o, phase) ==
  [o EXCEPT !.currentPhase = phase, !.searchDisabled = (phase # PHASE_READY)]

\* the answers to GET_CACHED_SETS: the sets, { ok: false }, or sendMessage
\* rejects
RefreshAnswers == {"sets", "error", "throws"}

\* refreshCachedSets(): cachedSetsMap is cleared and filled after the await;
\* hasCachedSets = cachedSetsMap.size > 0
refreshCachedSets(o, setStore, answer) ==
  LET map == CASE answer = "sets" -> DOMAIN setStore
               [] answer = "error" -> {}
               [] answer = "throws" -> o.cachedSetsMap
  IN [o EXCEPT !.cachedSetsMap = map, !.hasCachedSets = (map # {})]

\* loadState() and refreshState(): hasAuth = !!echoToken, refreshCachedSets(),
\* setPhase(determinePhase())
refreshState(o, echoToken, setStore, answer) ==
  LET flags == refreshCachedSets([o EXCEPT !.hasAuth = (echoToken # NoToken),
                                           !.loaded = TRUE], setStore, answer)
  IN setPhase(flags, determinePhase(flags))

\* the click listener of loginBtn after the LOGIN response
onLoginClick(o, ok, setStore, answer) ==
  IF ok
  THEN LET flags == refreshCachedSets([o EXCEPT !.hasAuth = TRUE], setStore, answer)
       IN setPhase(flags, IF flags.hasCachedSets THEN PHASE_READY ELSE PHASE_CACHE)
  ELSE o

\* the click listener of logoutBtn
onLogoutClick(o) == setPhase([o EXCEPT !.hasAuth = FALSE], PHASE_LOGIN)

\* the click listener of cacheBtn after its CACHE_SETS messages
onCacheClick(o, setStore, answer) ==
  LET flags == refreshCachedSets(o, setStore, answer)
  IN IF flags.hasCachedSets /\ flags.currentPhase = PHASE_CACHE
     THEN setPhase(flags, PHASE_READY)
     ELSE flags

\* the click listener of cachedSetList after CLEAR_SET
onClearSetClick(o, setStore, answer) ==
  LET flags == refreshCachedSets(o, setStore, answer)
  IN IF ~flags.hasCachedSets /\ flags.currentPhase = PHASE_READY
     THEN setPhase(flags, PHASE_CACHE)
     ELSE flags

\* the click listener of clearAllBtn after CLEAR_ALL
onClearAllClick(o, setStore, answer) ==
  LET flags == refreshCachedSets(o, setStore, answer)
  IN IF flags.currentPhase = PHASE_READY
     THEN setPhase(flags, PHASE_CACHE)
     ELSE flags

\* the service worker has restored the stored token; the content script has
\* been injected and loadState() is about to run
InitFlow ==
  /\ cards = EmptyStore
  /\ sets = EmptyStore
  /\ search = NoValue
  /\ inName = <<>>
  /\ outRecord = NoValue
  /\ inQuery = <<>>
  /\ outIntent = NoValue
  /\ outScore = NoValue
  /\ running = <<>>
  /\ writing = NoValue
  /\ limiter = NoValue
  /\ request = NoValue
  /\ overlay = newFlow
  /\ \E storedToken \in {NoToken, "t1"} : worker = initRestores(newWorker(storedToken))
  /\ now = 0

LoadState(answer) ==
  /\ ~overlay.loaded
  /\ overlay' = refreshState(overlay, worker.stored, sets, answer)
  /\ UNCHANGED <<coreVars, running, writing, limiter, request, worker, now>>

Expand(answer) ==
  /\ overlay.loaded
  /\ overlay' = refreshState(overlay, worker.stored, sets, answer)
  /\ UNCHANGED <<coreVars, running, writing, limiter, request, worker, now>>

\* the login form is shown while the overlay is logged out
LoginClick(outcome, answer) ==
  /\ overlay.loaded
  /\ ~overlay.hasAuth
  /\ worker' = [handleLogin(worker, outcome) EXCEPT !.response = NoValue]
  /\ overlay' = onLoginClick(overlay, outcome = "ok", sets, answer)
  /\ UNCHANGED <<coreVars, running, writing, limiter, request, now>>

LogoutClick ==
  /\ overlay.loaded
  /\ overlay.hasAuth
  /\ worker' = [logoutEnd(logoutStart(worker)) EXCEPT !.response = NoValue]
  /\ overlay' = onLogoutClick(overlay)
  /\ UNCHANGED <<coreVars, running, writing, limiter, request, now>>

\* the cache section is enabled in the phases cache and ready
CacheClick(setCode, fetched, answer) ==
  LET stores == worker.token # NoToken /\ fetched
      rawCards == TxRawLists(setCode)
      written == IF stores
                 THEN callWrite("cacheSet", setCode,
                                CHOOSE l \in rawCards : \A m \in rawCards : Len(m) <= Len(l),
                                cards, sets)
                 ELSE [cards |-> cards, sets |-> sets, ok |-> FALSE]
  IN /\ overlay.loaded
     /\ overlay.currentPhase # PHASE_LOGIN
     /\ cards' = written.cards
     /\ sets' = written.sets
     /\ overlay' = onCacheClick(overlay, written.sets, answer)
     /\ UNCHANGED <<search, inName, outRecord, inQuery, outIntent, outScore,
                    running, writing, limiter, request, worker, now>>

\* a Clear button exists for every set of cachedSetsMap
ClearSetClick(setCode, answer) ==
  LET written == callWrite("clearSet", setCode, <<>>, cards, sets)
  IN /\ overlay.loaded
     /\ overlay.currentPhase # PHASE_LOGIN
     /\ setCode \in overlay.cachedSetsMap
     /\ cards' = written.cards
     /\ sets' = written.sets
     /\ overlay' = onClearSetClick(overlay, written.sets, answer)
     /\ UNCHANGED <<search, inName, outRecord, inQuery, outIntent, outScore,
                    running, writing, limiter, request, worker, now>>

\* the Clear All button is shown while cachedSetsMap is not empty; cleared
\* says whether the transaction of clearAll committed
ClearAllClick(cleared, answer) ==
  LET written == IF cleared
                 THEN callWrite("clearAll", "", <<>>, cards, sets)
                 ELSE [cards |-> cards, sets |-> sets, ok |-> FALSE]
  IN /\ overlay.loaded
     /\ overlay.currentPhase # PHASE_LOGIN
     /\ overlay.cachedSetsMap # {}
     /\ cards' = written.cards
     /\ sets' = written.sets
     /\ overlay' = onClearAllClick(overlay, written.sets, answer)
     /\ UNCHANGED <<search, inName, outRecord, inQuery, outIntent, outScore,
                    running, writing, limiter, request, worker, now>>

NextFlow ==
  \/ \E answer \in RefreshAnswers : LoadState(answer)
  \/ \E answer \in RefreshAnswers : Expand(answer)
  \/ \E outcome \in {"ok", "fail"}, answer \in RefreshAnswers : LoginClick(outcome, answer)
  \/ LogoutClick
  \/ \E setCode \in SetCodes, fetched \in BOOLEAN, answer \in RefreshAnswers :
       CacheClick(setCode, fetched, answer)
  \/ \E setCode \in SetCodes, answer \in RefreshAnswers : ClearSetClick(setCode, answer)
  \/ \E cleared \in BOOLEAN, answer \in RefreshAnswers : ClearAllClick(cleared, answer)

SpecFlow == InitFlow /\ [][NextFlow]_vars

-----------------------------------------------------------------------------
(* The overlay: adding the selected card *)

\* The overlay with the inventory section in use.  results holds the emids of
\* the cards listed; inflight lists the ADD_CARD messages sent and not yet
\* answered, each with the position it carries and, once the service worker
\* has handled it, the result; added lists the positions under which the
\* service worker has added a card for this overlay.
newAdding ==
  [ results |-> <<>>, selectedIndex |-> -1, isAdding |-> FALSE,
    searchDisabled |-> FALSE, posInput |-> 1, inflight |-> <<>>, added |-> <<>> ]

\* addSelectedCard without the test of isAdding
addSelectedCard_NoGuard(o) ==
  IF o.selectedIndex < 0 \/ o.selectedIndex >= Len(o.results)
  THEN o
  ELSE [o EXCEPT !.isAdding = TRUE, !.searchDisabled = TRUE,
                 !.inflight = Append(@, [ emid |-> o.results[o.selectedIndex + 1],
                                          position |-> o.posInput,
                                          result |-> NoValue ])]

\* addSelectedCard() up to its await: isAdding = true and ADD_CARD is sent
\* with position: Number(posInput.value)
addSelectedCard(o) ==
  IF o.isAdding \/ o.selectedIndex < 0 \/ o.selectedIndex >= Len(o.results)
  THEN o
  ELSE [o EXCEPT !.isAdding = TRUE, !.searchDisabled = TRUE,
                 !.inflight = Append(@, [ emid |-> o.results[o.selectedIndex + 1],
                                          position |-> o.posInput,
                                          result |-> NoValue ])]

\* the click listener of resultsList for the item of index idx
onResultClick(o, idx) ==
  IF o.isAdding THEN o
  ELSE IF idx >= 0 /\ idx < Len(o.results)
       THEN addSelectedCard([o EXCEPT !.selectedIndex = idx])
       ELSE o

\* the keydown listener of searchInput, key Enter
onEnter(o) == IF o.selectedIndex >= 0 THEN addSelectedCard(o) ELSE o

\* doSearch when its SEARCH_CARDS response arrives
onSearchResult(o, found) ==
  [o EXCEPT !.results = found, !.selectedIndex = IF Len(found) > 0 THEN 0 ELSE -1]

\* addSelectedCard() after its await
onAddResult(o, i) ==
  LET result == o.inflight[i].result
      rest == SubSeq(o.inflight, 1, i - 1) \o SubSeq(o.inflight, i + 1, Len(o.inflight))
      back == [o EXCEPT !.isAdding = FALSE, !.searchDisabled = FALSE, !.inflight = rest]
  IN IF result.ok
     THEN [back EXCEPT !.posInput = result.newPosition, !.results = <<>>,
                       !.selectedIndex = -1]
     ELSE back

\* sendMessage rejects: addSelectedCard throws at its await
onAddRejected(o, i) ==
  [o EXCEPT !.inflight = SubSeq(@, 1, i - 1) \o SubSeq(@, i + 1, Len(@))]

MaxInflight == 2

InitAdding ==
  /\ cards = EmptyStore
  /\ sets = EmptyStore
  /\ search = NoValue
  /\ inName = <<>>
  /\ outRecord = NoValue
  /\ inQuery = <<>>
  /\ outIntent = NoValue
  /\ outScore = NoValue
  /\ running = <<>>
  /\ writing = NoValue
  /\ limiter = NoValue
  /\ request = NoValue
  /\ overlay = newAdding
  /\ \E storedToken \in {NoToken, "t1"} : worker = initRestores(newWorker(storedToken))
  /\ now = 0

SearchResultArrives(found) ==
  /\ overlay' = onSearchResult(overlay, found)
  /\ UNCHANGED <<coreVars, running, writing, limiter, request, worker, now>>

ResultClick(idx) ==
  /\ idx < Len(overlay.results)
  /\ overlay.posInput <= MaxPosition
  /\ overlay' = onResultClick(overlay, idx)
  /\ UNCHANGED <<coreVars, running, writing, limiter, request, worker, now>>

\* the Enter key, whether or not the disabled input still receives it
EnterKey ==
  /\ overlay.posInput <= MaxPosition
  /\ overlay' = onEnter(overlay)
  /\ UNCHANGED <<coreVars, running, writing, limiter, request, worker, now>>

\* the service worker handles the message: handleAddCard
AddHandled(i, addOutcome, noteOutcome) ==
  /\ i <= Len(overlay.inflight)
  /\ overlay.inflight[i].result = NoValue
  /\ LET handled == handleAddCard(worker, overlay.inflight[i].position, addOutcome, noteOutcome)
     IN /\ worker' = [handled EXCEPT !.response = NoValue]
        /\ overlay' = [overlay EXCEPT
                         !.inflight[i].result = handled.response,
                         !.added = IF handled.response.addSucceeded
                                   THEN Append(@, overlay.inflight[i].position) ELSE @]
  /\ UNCHANGED <<coreVars, running, writing, limiter, request, now>>

AddAnswered(i) ==
  /\ i <= Len(overlay.inflight)
  /\ overlay.inflight[i].result # NoValue
  /\ overlay' = onAddResult(overlay, i)
  /\ UNCHANGED <<coreVars, running, writing, limiter, request, worker, now>>

AddRejected(i) ==
  /\ i <= Len(overlay.inflight)
  /\ overlay' = onAddRejected(overlay, i)
  /\ UNCHANGED <<coreVars, running, writing, limiter, request, worker, now>>

NextAdding ==
  \/ \E found \in {<<>>, <<1>>, <<2>>, <<1, 2>>} : SearchResultArrives(found)
  \/ \E idx \in 0..1 : ResultClick(idx)
  \/ EnterKey
  \/ \E i \in 1..MaxInflight, addOutcome \in {"id", "noId", "fail"},
        noteOutcome \in {"ok", "fail"} : AddHandled(i, addOutcome, noteOutcome)
  \/ \E i \in 1..MaxInflight : AddAnswered(i)
  \/ \E i \in 1..MaxInflight : AddRejected(i)

SpecAdding == InitAdding /\ [][NextAdding]_vars

-----------------------------------------------------------------------------
(* Multi-token search over names that begin with a stop-word or a hyphen *)

TheStormSeeker == <<"T","h","e"," ">> \o StormSeeker
HyphenStormSeeker == <<"-">> \o StormSeeker
LeadingNames == {StormSeeker, TheStormSeeker, HyphenStormSeeker}

MultiTokenQueries ==
  { <<"s","t","o","r","m"," ","s","e","e">>, <<"s","t"," ","s">>,
    <<"s","e","e"," ","s","t">>, <<"t","h","e"," ","s","t">> }

NextLeading ==
  \/ \E setCode \in SetCodes, emid \in Emids, name \in LeadingNames :
       CacheSet(setCode, <<[emid |-> emid, name |-> name]>>)
  \/ \E query \in MultiTokenQueries, activeSets \in ActiveSetsArgs :
       SearchCards(query, activeSets)
  \/ Respond

SpecLeading == Init /\ [][NextLeading]_vars

-----------------------------------------------------------------------------
(* Active and inactive sets: setSetActive, getActiveSets and doSearch *)

\* CardDB.setSetActive(setCode, active): the metadata record, if there is
\* one, is put back with the new flag
setSetActive(setStore, setCode, active) ==
  IF setCode \in DOMAIN setStore
  THEN [setStore EXCEPT ![setCode].active = active]
  ELSE setStore

\* doSearch up to its second message: the answer to GET_ACTIVE_SETS becomes
\* the activeSets of SEARCH_CARDS.  inactive remembers the sets that were
\* marked inactive at that moment.
askActiveSets(setStore, query) ==
  [ query |-> query, phase |-> "sets",
    activeSets |-> ActiveSets(getActiveSets(setStore)),
    inactive |-> { code \in DOMAIN setStore : setStore[code].active = FALSE },
    cards |-> <<>> ]

InitActive == Init

SetSetActive(setCode, active) ==
  /\ sets' = setSetActive(sets, setCode, active)
  /\ UNCHANGED <<cards, search, inName, outRecord, inQuery, outIntent, outScore, ioVars>>

DoSearch(query) ==
  /\ search = NoValue
  /\ search' = askActiveSets(sets, query)
  /\ UNCHANGED <<cards, sets, inName, outRecord, inQuery, outIntent, outScore, ioVars>>

\* handleSearchCards answers; results = result.cards
SearchAnswered ==
  /\ search # NoValue
  /\ search.phase = "sets"
  /\ search' = [search EXCEPT
                  !.phase = "shown",
                  !.cards = searchCards(cards, search.query, search.activeSets,
                                        DEFAULT_MAX_RESULTS).returned]
  /\ UNCHANGED <<cards, sets, inName, outRecord, inQuery, outIntent, outScore, ioVars>>

SearchCleared ==
  /\ search # NoValue
  /\ search.phase = "shown"
  /\ search' = NoValue
  /\ UNCHANGED <<cards, sets, inName, outRecord, inQuery, outIntent, outScore, ioVars>>

NextActive ==
  \/ \E setCode \in SetCodes : \E rawCards \in TxRawLists(setCode) :
       CacheSet(setCode, rawCards)
  \/ \E setCode \in SetCodes, active \in BOOLEAN : SetSetActive(setCode, active)
  \/ \E query \in TxQueries : DoSearch(query)
  \/ SearchAnswered
  \/ SearchCleared

SpecActive == InitActive /\ [][NextActive]_vars

-----------------------------------------------------------------------------
(* The catalog under whole calls of cacheSet, clearSet and clearAll *)

\* what the API can serve for a set: NEO in full, with one card only, and with
\* an emid repeated; DMU with its own card, and with a card whose emid NEO has
CatalogRawLists(setCode) ==
  IF setCode = "NEO"
  THEN { <<NeoFalcon, NeoSeeker>>, <<NeoFalcon>>, <<NeoFalcon, NeoFalcon>> }
  ELSE { <<DmuSeeker>>, <<NeoFalcon>> }

CatalogCacheSet(setCode, rawCards) ==
  LET written == callWrite("cacheSet", setCode, rawCards, cards, sets)
  IN /\ cards' = written.cards
     /\ sets' = written.sets
     /\ UNCHANGED <<search, inName, outRecord, inQuery, outIntent, outScore, ioVars>>

CatalogClearSet(setCode) ==
  LET written == callWrite("clearSet", setCode, <<>>, cards, sets)
  IN /\ cards' = written.cards
     /\ sets' = written.sets
     /\ UNCHANGED <<search, inName, outRecord, inQuery, outIntent, outScore, ioVars>>

CatalogClearAll ==
  LET written == callWrite("clearAll", "", <<>>, cards, sets)
  IN /\ cards' = written.cards
     /\ sets' = written.sets
     /\ UNCHANGED <<search, inName, outRecord, inQuery, outIntent, outScore, ioVars>>

NextCatalog ==
  \/ \E setCode \in SetCodes : \E rawCards \in CatalogRawLists(setCode) :
       CatalogCacheSet(setCode, rawCards)
  \/ \E setCode \in SetCodes : CatalogClearSet(setCode)
  \/ CatalogClearAll
  \/ \E setCode \in SetCodes, active \in BOOLEAN : SetSetActive(setCode, active)

SpecCatalog == Init /\ [][NextCatalog]_vars

-----------------------------------------------------------------------------
(* Vocabulary of the properties *)

Letters == LowerSet \cup UpperSet

\* the records held by the "cards" store
Stored == { cards[e] : e \in DOMAIN cards }

\* a record is in the set the activeSets argument selects
InActiveSets(activeSets, card) ==
  \/ ~activeSets.given
  \/ activeSets.list = <<>>
  \/ \E i \in 1..Len(activeSets.list) :
       SetCodeUpper(activeSets.list[i]) = card.set_code

\* p is a prefix of s, character by character
IsPrefixOf(p, s) ==
  Len(p) <= Len(s) /\ \A i \in 1..Len(p) : p[i] = s[i]

\* the list holds every element of the set exactly once
ListsExactly(list, set) ==
  /\ Range(list) = set
  /\ Len(list) = Cardinality(set)

\* two token lists are permutations of each other
IsPermutation(a, b) ==
  /\ Len(a) = Len(b)
  /\ \A x \in Range(a) \cup Range(b) :
       Cardinality({ i \in 1..Len(a) : a[i] = x })
         = Cardinality({ i \in 1..Len(b) : b[i] = x })

TokenizerRan == outRecord # NoValue
ClassifierRan == outIntent # NoValue
Searched == search # NoValue
SearchedWith(strategies) ==
  Searched /\ search.intent # NoValue /\ search.intent.strategy \in strategies

-----------------------------------------------------------------------------
(* Properties *)

\* C1: for every card name that is not empty (after the trim toCardRecord
\* applies), the tokens stored in the record are not empty; a stop-word-only
\* name falls back to the whole lower-cased name.
C1_TokensNeverEmpty ==
  (TokenizerRan /\ trim(inName) # <<>>) => outRecord.tokens # <<>>

\* C2: initials has one character per token, the first character of that
\* token, in token order; progressive_initials is the list of the prefixes of
\* initials of lengths 1..len(initials) in increasing length, and its last
\* element is initials.
C2_InitialsAndProgressive ==
  TokenizerRan =>
    LET tokens   == outRecord.tokens
        initials == outRecord.initials
        prog     == outRecord.progressive_initials
    IN /\ Len(initials) = Len(tokens)
       /\ \A i \in 1..Len(tokens) : initials[i] = tokens[i][1]
       /\ Len(prog) = Len(initials)
       /\ \A i \in 1..Len(prog) :
            Len(prog[i]) = i /\ IsPrefixOf(prog[i], initials)
       /\ (prog # <<>> => prog[Len(prog)] = initials)

C2_Witness ==
  /\ TokenizerRan
  /\ Len(outRecord.tokens) = 2
  /\ outRecord.initials = <<"t", "o">>
  /\ outRecord.progressive_initials = << <<"t">>, <<"t", "o">> >>

\* C3: a query without whitespace, made only of letters, is classified
\* 'initials' (query lower-cased) exactly when it has two or more letters and
\* all of them are upper-case; otherwise (lower or mixed case, or one letter)
\* it is classified 'prefix'.
C3_InitialsOnlyWhenUpperCase ==
  (ClassifierRan /\ inQuery # <<>> /\ \A i \in 1..Len(inQuery) : inQuery[i] \in Letters)
    => IF Len(inQuery) >= 2 /\ \A i \in 1..Len(inQuery) : inQuery[i] \in UpperSet
       THEN /\ outIntent.strategy = "initials"
            /\ outIntent.query = [i \in 1..Len(inQuery) |-> LowerChar(inQuery[i])]
       ELSE outIntent.strategy = "prefix"

C3_Witness ==
  /\ ClassifierRan
  /\ inQuery = <<"S", "F">>
  /\ outIntent.strategy = "initials"
  /\ outIntent.query = <<"s", "f">>

\* the fragments of a query between its whitespace runs, lower-cased
Fragments(q) ==
  SelectSeq(split([i \in 1..Len(q) |-> LowerChar(q[i])], Whitespace),
            LAMBDA t : t # <<>>)

\* one letter followed by one or more groups of (whitespace, one letter)
IsLetterGroups(q) ==
  /\ Len(q) >= 3
  /\ q[1] \in Letters /\ q[Len(q)] \in Letters
  /\ \A i \in 1..Len(q) : q[i] \in Letters \cup Whitespace
  /\ \A i \in 1..(Len(q) - 1) : ~(q[i] \in Letters /\ q[i + 1] \in Letters)

\* whitespace between two non-whitespace characters
HasInnerWhitespace(q) ==
  \E i, j, k \in 1..Len(q) :
    i < j /\ j < k /\ q[i] \notin Whitespace /\ q[j] \in Whitespace
      /\ q[k] \notin Whitespace

\* C4: every query with whitespace (a space, a tab, ...) between
\* non-whitespace characters that is not of the space-initials form is
\* classified 'multi_token', with tokens the lower-cased fragments in order and
\* query the lower-cased trimmed input.
C4_InnerWhitespaceIsMultiToken ==
  (ClassifierRan /\ HasInnerWhitespace(inQuery) /\ ~IsLetterGroups(trim(inQuery)))
    => /\ outIntent.strategy = "multi_token"
       /\ outIntent.tokens = Fragments(inQuery)
       /\ outIntent.query = toLowerCase(trim(inQuery))

\* C5: a query of the form letter, then one or more groups of (whitespace,
\* letter), in either case, is classified 'space_initials' with query the
\* letters concatenated and lower-cased, never 'multi_token'.
C5_SpaceInitials ==
  (ClassifierRan /\ IsLetterGroups(inQuery))
    => /\ outIntent.strategy = "space_initials"
       /\ outIntent.query =
            SelectSeq([i \in 1..Len(inQuery) |-> LowerChar(inQuery[i])],
                      LAMBDA c : c \in LowerSet)

C5_Witness ==
  /\ ClassifierRan
  /\ inQuery = <<"S", "\t", " ", "f">>
  /\ outIntent.strategy = "space_initials"
  /\ outIntent.query = <<"s", "f">>

\* C6: for an empty or whitespace-only query, detectSearchIntent gives
\* strategy 'empty', and searchCards returns the empty list without opening a
\* transaction on the card store.
C6_EmptyQuery ==
  (Searched /\ \A i \in 1..Len(search.query) : search.query[i] \in Whitespace)
    => /\ detectSearchIntent(search.query).strategy = "empty"
       /\ search.returned = <<>>
       /\ search.transactions = 0

C6_Witness ==
  /\ Searched
  /\ search.query = <<" ">>
  /\ search.returned = <<>>
  /\ Stored # {}

\* C7: for a multi_token query the candidates are exactly the stored records
\* in the set filter whose first_letter is the first character of the first
\* query token and each of whose query tokens is a prefix of some record
\* token; each such record is a candidate once.
C7_MultiTokenCandidates ==
  SearchedWith({"multi_token"}) =>
    LET qTokens == search.intent.tokens
    IN ListsExactly(search.candidates,
         { card \in Stored :
             /\ InActiveSets(search.activeSets, card)
             /\ card.first_letter = <<qTokens[1][1]>>
             /\ \A i \in 1..Len(qTokens) :
                  \E j \in 1..Len(card.tokens) : IsPrefixOf(qTokens[i], card.tokens[j]) })

\* a multi_token search found a card while another stored card, whose tokens
\* match as well, lies in another first-letter partition
C7_Witness ==
  /\ SearchedWith({"multi_token"})
  /\ search.candidates # <<>>
  /\ \E card \in Stored :
       /\ \A i \in 1..Len(search.intent.tokens) :
            \E j \in 1..Len(card.tokens) :
              IsPrefixOf(search.intent.tokens[i], card.tokens[j])
       /\ card.first_letter # <<search.intent.tokens[1][1]>>

\* the candidates of the query q2 on the current catalog, as a set
CandidatesOf(q2, activeSets) ==
  Range(searchCards(cards, q2, activeSets, DEFAULT_MAX_RESULTS).candidates)

\* q2 is a multi_token query whose tokens are a permutation of those searched
IsPermutedQuery(q2) ==
  /\ detectSearchIntent(q2).strategy = "multi_token"
  /\ IsPermutation(detectSearchIntent(q2).tokens, search.intent.tokens)

\* C8 as stated: two multi_token queries that are permutations of the same
\* tokens have the same set of candidates, on any catalog.
C8_PermutationSameCandidates ==
  SearchedWith({"multi_token"}) =>
    \A q2 \in SearchQueries :
      IsPermutedQuery(q2)
        => CandidatesOf(q2, search.activeSets) = Range(search.candidates)

\* C8 amended: two multi_token queries that are permutations of the same
\* tokens and whose first tokens begin with the same character have the same
\* set of candidates.
C8_PermutationSameFirstLetter ==
  SearchedWith({"multi_token"}) =>
    \A q2 \in SearchQueries :
      (IsPermutedQuery(q2)
         /\ detectSearchIntent(q2).tokens[1][1] = search.intent.tokens[1][1])
        => CandidatesOf(q2, search.activeSets) = Range(search.candidates)

C8_Witness ==
  /\ SearchedWith({"multi_token"})
  /\ search.candidates # <<>>
  /\ \E q2 \in SearchQueries :
       /\ q2 # search.query
       /\ IsPermutedQuery(q2)
       /\ detectSearchIntent(q2).tokens[1][1] = search.intent.tokens[1][1]

\* C9: for strategy initials or space_initials the candidates are exactly the
\* stored records in the set filter whose initials start with the query or
\* whose progressive_initials contain it, each at most once.
C9_InitialsCandidates ==
  SearchedWith({"initials", "space_initials"}) =>
    ListsExactly(search.candidates,
      { card \in Stored :
          /\ InActiveSets(search.activeSets, card)
          /\ \/ IsPrefixOf(search.intent.query, card.initials)
             \/ \E i \in 1..Len(card.progressive_initials) :
                  card.progressive_initials[i] = search.intent.query })

\* an initials search found a card whose initials are longer than the query
C9_Witness ==
  /\ SearchedWith({"initials", "space_initials"})
  /\ \E i \in 1..Len(search.candidates) :
       Len(search.candidates[i].initials) > Len(search.intent.query)

\* C10: for strategy prefix the candidates are exactly the stored records in
\* the set filter whose search_normalized starts with the query: none is
\* missed by the early stop of the cursor scan and none without the prefix is
\* returned.
C10_PrefixCandidates ==
  SearchedWith({"prefix"}) =>
    ListsExactly(search.candidates,
      { card \in Stored :
          /\ InActiveSets(search.activeSets, card)
          /\ IsPrefixOf(search.intent.query, card.search_normalized) })

\* a prefix search found a card although a card outside the set filter and a
\* card without the prefix are stored too
C10_Witness ==
  /\ SearchedWith({"prefix"})
  /\ search.candidates # <<>>
  /\ \E card \in Stored : ~InActiveSets(search.activeSets, card)
  /\ \E card \in Stored : ~IsPrefixOf(search.intent.query, card.search_normalized)

\* the strategies searchCards retrieves for
KnownStrategies == {"initials", "space_initials", "multi_token", "prefix"}

\* a record without the derived search fields
IsLegacy(card) ==
  ~Has(card, "tokens") /\ ~Has(card, "initials") /\ ~Has(card, "progressive_initials")

\* the name matches the query, the derived fields being computed from the name:
\* its initials are the query, every query token is a prefix of one of its
\* tokens, or the lower-cased name starts with the query
NameMatches(intent, name) ==
  CASE intent.strategy \in {"initials", "space_initials"} ->
         intent.query = generateInitials(name)
    [] intent.strategy = "multi_token" ->
         \A i \in 1..Len(intent.tokens) :
           \E j \in 1..Len(extractTokens(name)) :
             IsPrefixOf(intent.tokens[i], extractTokens(name)[j])
    [] intent.strategy = "prefix" ->
         IsPrefixOf(intent.query, toLowerCase(name))
    [] OTHER -> FALSE

\* C11: a stored record without tokens, initials and progressive_initials is
\* never excluded outright: when its name matches the query (and it is in the
\* set filter), searchCards returns it.
C11_LegacyRecordReturned ==
  SearchedWith(KnownStrategies) =>
    \A card \in Stored :
      (IsLegacy(card) /\ InActiveSets(search.activeSets, card)
         /\ NameMatches(search.intent, card.name))
        => \E i \in 1..Len(search.returned) : search.returned[i] = card

\* a fully indexed record matches the intent, as C7, C9 and C10 state it
Matches(intent, card) ==
  CASE intent.strategy \in {"initials", "space_initials"} ->
         \/ IsPrefixOf(intent.query, card.initials)
         \/ \E i \in 1..Len(card.progressive_initials) :
              card.progressive_initials[i] = intent.query
    [] intent.strategy = "multi_token" ->
         /\ card.first_letter = <<intent.tokens[1][1]>>
         /\ \A i \in 1..Len(intent.tokens) :
              \E j \in 1..Len(card.tokens) : IsPrefixOf(intent.tokens[i], card.tokens[j])
    [] intent.strategy = "prefix" ->
         IsPrefixOf(intent.query, card.search_normalized)
    [] OTHER -> FALSE

Min(a, b) == IF a <= b THEN a ELSE b

\* the stored records that match the query of the search and are in its set
\* filter
FilteredMatches ==
  { card \in Stored :
      Matches(search.intent, card) /\ InActiveSets(search.activeSets, card) }

\* C13: the set filter is applied before the cap: when k stored records match
\* the query and the set filter, searchCards returns min(k, maxResults) records,
\* all of them in the filter, whatever matches lie outside the filter.
C13_FilterBeforeCap ==
  (SearchedWith(KnownStrategies) /\ Has(search, "maxResults")) =>
    /\ Len(search.returned) = Min(Cardinality(FilteredMatches), search.maxResults)
    /\ Range(search.returned) \subseteq FilteredMatches

\* a search cut to one result returned a record of the filter although a
\* better-scoring match is stored outside the filter
C13_Witness ==
  /\ SearchedWith(KnownStrategies)
  /\ Has(search, "maxResults")
  /\ search.maxResults = 1
  /\ Len(search.returned) = 1
  /\ \E card \in Stored :
       /\ Matches(search.intent, card)
       /\ ~InActiveSets(search.activeSets, card)
       /\ scoreMatch(search.intent, card)
            < scoreMatch(search.intent, search.returned[1])

\* position of a card in the candidate list of the search
CandidatePos(card) ==
  CHOOSE i \in 1..Len(search.candidates) : search.candidates[i] = card

\* x is ranked before y: a smaller score, or the same score and an earlier
\* place in the candidate list
RankedBefore(x, y) ==
  \/ scoreMatch(search.intent, x) < scoreMatch(search.intent, y)
  \/ /\ scoreMatch(search.intent, x) = scoreMatch(search.intent, y)
     /\ CandidatePos(x) < CandidatePos(y)

\* C14: the returned list holds candidates, in ascending score order; two of
\* equal score are in the order of the candidate list; and a candidate that was
\* cut off is ranked after every returned one.
C14_AscendingStable ==
  (SearchedWith(KnownStrategies) /\ Has(search, "maxResults")) =>
    /\ Range(search.returned) \subseteq Range(search.candidates)
    /\ \A i, j \in 1..Len(search.returned) :
         i < j => RankedBefore(search.returned[i], search.returned[j])
    /\ \A i \in 1..Len(search.returned) :
         \A card \in Range(search.candidates) \ Range(search.returned) :
           RankedBefore(search.returned[i], card)

\* two candidates of different score were returned in the reverse of their
\* candidate order
C14_Witness ==
  /\ SearchedWith(KnownStrategies)
  /\ Has(search, "maxResults")
  /\ Len(search.returned) = 2
  /\ scoreMatch(search.intent, search.returned[1])
       < scoreMatch(search.intent, search.returned[2])
  /\ CandidatePos(search.returned[2]) < CandidatePos(search.returned[1])

\* C15: the returned list never has more than maxResults elements, whatever
\* the number of candidates; maxResults is 20 when the caller gives none.
C15_AtMostMaxResults ==
  (Searched /\ Has(search, "maxResults")) =>
    Len(search.returned) <= search.maxResults

\* more candidates than maxResults, and the list was cut to maxResults
C15_Witness ==
  /\ Searched
  /\ Has(search, "maxResults")
  /\ search.maxResults > 0
  /\ Len(search.candidates) > search.maxResults
  /\ Len(search.returned) = search.maxResults

\* C16: under initials or space_initials a candidate whose initials are the
\* query scores 0 and every other candidate scores 100, and no candidate with
\* other initials is returned before one whose initials are the query.
C16_InitialsScore ==
  SearchedWith({"initials", "space_initials"}) =>
    /\ \A card \in Range(search.candidates) :
         scoreMatch(search.intent, card)
           = IF card.initials = search.intent.query THEN 0 ELSE 100 * ScoreScale
    /\ \A i, j \in 1..Len(search.returned) :
         (search.returned[i].initials # search.intent.query
            /\ search.returned[j].initials = search.intent.query) => j < i

\* an initials search returned an exact record and a partial one
C16_Witness ==
  /\ SearchedWith({"initials", "space_initials"})
  /\ Len(search.returned) = 2
  /\ search.returned[1].initials = search.intent.query
  /\ search.returned[2].initials # search.intent.query
  /\ scoreMatch(search.intent, search.returned[1]) = 0
  /\ scoreMatch(search.intent, search.returned[2]) = 100 * ScoreScale

ScorerRan == outScore # NoValue

\* 0-based position of the first record token that has the prefix p
FirstTokenWithPrefix(tokens, p) ==
  (CHOOSE j \in 1..Len(tokens) :
     /\ IsPrefixOf(p, tokens[j])
     /\ \A k \in 1..(j - 1) : ~IsPrefixOf(p, tokens[k])) - 1

\* f[1] + ... + f[n]
RECURSIVE SumTo(_, _)
SumTo(f, n) == IF n = 0 THEN 0 ELSE f[n] + SumTo(f, n - 1)

\* C17: under multi_token the score is 1000 unless every query token is a
\* prefix of some record token, and then it is the sum over the query tokens,
\* the i-th at 0-based position i - 1, of (position of the first record token
\* with that prefix) + 0.1 * (i - 1); all scores times ScoreScale.
C17_MultiTokenScore ==
  (ScorerRan /\ outIntent.strategy = "multi_token") =>
    LET qTokens == outIntent.tokens
        cTokens == outRecord.tokens
    IN IF \A i \in 1..Len(qTokens) :
            \E j \in 1..Len(cTokens) : IsPrefixOf(qTokens[i], cTokens[j])
       THEN outScore.indexed =
              SumTo([i \in 1..Len(qTokens) |->
                       ScoreScale * FirstTokenWithPrefix(cTokens, qTokens[i]) + (i - 1)],
                    Len(qTokens))
       ELSE outScore.indexed = 1000 * ScoreScale

\* both query tokens matched, the first one two record tokens, the second one
\* the third record token: 0 + (2 + 0.1)
C17_Witness ==
  /\ ScorerRan
  /\ outIntent.strategy = "multi_token"
  /\ outIntent.tokens = << <<"s","t">>, <<"f","i">> >>
  /\ outRecord.tokens = << <<"s","t","o","r","m">>, <<"s","t","o","r","m">>, <<"f","i","r","e">> >>
  /\ outScore.indexed = 21

\* C18: under prefix every record that prefix retrieval returns scores 0.
C18_PrefixScoreZero ==
  SearchedWith({"prefix"}) =>
    \A card \in Range(search.candidates) : scoreMatch(search.intent, card) = 0

\* the record has every derived field, none of them empty
FullyIndexed(card) ==
  /\ Has(card, "tokens") /\ card.tokens # <<>>
  /\ Has(card, "initials") /\ card.initials # <<>>
  /\ Has(card, "progressive_initials") /\ card.progressive_initials # <<>>

\* the kind of match the query has on the fully indexed record: its initials
\* are the query, every query token is a prefix of one of its tokens, or its
\* search_normalized starts with the query
SameKindOfMatch(intent, card) ==
  CASE intent.strategy \in {"initials", "space_initials"} ->
         intent.query = card.initials
    [] intent.strategy = "multi_token" ->
         \A i \in 1..Len(intent.tokens) :
           \E j \in 1..Len(card.tokens) : IsPrefixOf(intent.tokens[i], card.tokens[j])
    [] intent.strategy = "prefix" ->
         IsPrefixOf(intent.query, card.search_normalized)
    [] OTHER -> FALSE

\* C19: for the same intent and the same kind of match (exact initials, all
\* tokens matched, name starts with the query), the fallback score of the
\* legacy record is greater than the score of the fully indexed record.
C19_FallbackScoresWorse ==
  (ScorerRan /\ FullyIndexed(outRecord) /\ SameKindOfMatch(outIntent, outRecord)
     /\ NameMatches(outIntent, inName))
    => outScore.legacy > outScore.indexed

\* the catalog holds one record, the one derived from "Stormfighter Falcon",
\* and the search does not filter its set out
OnlyStormfighterFalcon ==
  /\ Cardinality(DOMAIN cards) = 1
  /\ \A card \in Stored :
       /\ card.name = StormfighterFalcon
       /\ InActiveSets(search.activeSets, card)

\* C20: with the record of "Stormfighter Falcon" as the catalog, each of the
\* queries "SF", "S F", "storm fal" and "sto" returns that record first, "SF"
\* with score 0, and "xyz" returns the empty list.
C20_StormfighterFalcon ==
  (Searched /\ OnlyStormfighterFalcon) =>
    /\ search.query \in { <<"S","F">>, <<"S"," ","F">>, <<"s","t","o">>,
                          <<"s","t","o","r","m"," ","f","a","l">> }
         => /\ search.returned # <<>>
            /\ search.returned[1] \in Stored
    /\ search.query = <<"S","F">>
         => scoreMatch(search.intent, search.returned[1]) = 0
    /\ search.query = <<"x","y","z">> => search.returned = <<>>

\* the query "sto" found the record by its lower-cased name
C20_Witness ==
  /\ Searched
  /\ OnlyStormfighterFalcon
  /\ search.query = <<"s","t","o">>
  /\ Len(search.returned) = 1
  /\ search.returned[1].name = StormfighterFalcon
  /\ search.returned[1].initials = <<"s","f">>

\* C21: search_normalized is lower-case, has no leading or trailing whitespace
\* and has every run of whitespace collapsed to one space; first_letter is its
\* first character, or the empty string when it is empty.
C21_SearchNormalizedCollapsed ==
  TokenizerRan =>
    LET sn == outRecord.search_normalized
    IN /\ \A i \in 1..Len(sn) : sn[i] \notin UpperSet
       /\ sn # <<>> => (sn[1] \notin Whitespace /\ sn[Len(sn)] \notin Whitespace)
       /\ \A i \in 1..Len(sn) : sn[i] \in Whitespace => sn[i] = " "
       /\ \A i \in 1..(Len(sn) - 1) :
            ~(sn[i] \in Whitespace /\ sn[i + 1] \in Whitespace)
       /\ outRecord.first_letter = IF sn = <<>> THEN <<>> ELSE <<sn[1]>>

\* the strategies the classifier can give
ClassifierStrategies == KnownStrategies \cup {"empty"}

Finished(p) ==
  /\ running # <<>>
  /\ running[p] # NoValue
  /\ running[p].phase = "done"

\* invocation p is reading: its cursor has visited at least one card
Reading(p) ==
  /\ running # <<>>
  /\ running[p] # NoValue
  /\ running[p].phase = "cursor"
  /\ running[p].last # NoValue

AloneOn(catalog, inv) ==
  searchCards(catalog, inv.query, inv.activeSets, DEFAULT_MAX_RESULTS)

\* C23: a searchCards invocation that ran interleaved with another one, with no
\* catalog write committed during it, returns exactly the list searchCards
\* returns for its query alone on that catalog.
C23_InterleavedLikeAlone ==
  \A p \in Invocations :
    (Finished(p) /\ Cardinality(running[p].catalogs) = 1) =>
      \A catalog \in running[p].catalogs :
        running[p].returned = AloneOn(catalog, running[p]).returned

\* one invocation has returned both "storm" cards for "sto" while the
\* invocation for "SF" is between two cursor steps
C23_Witness ==
  \E p \in Invocations, q \in Invocations :
    /\ p # q
    /\ Finished(p)
    /\ Cardinality(running[p].catalogs) = 1
    /\ Reading(q)
    /\ running[q].query # running[p].query
    /\ Len(running[p].returned) = 2
    /\ Len(running[q].results) = 1
    /\ running[q].results[1].name = StormfighterFalcon

\* C24: the candidates of a search that was invoked while cacheSet, clearSet or
\* clearAll was in progress are the candidates on the catalog before that write
\* or on the catalog after it.
C24_NoPartialCatalog ==
  \A p \in Invocations :
    Finished(p) =>
      \E catalog \in running[p].catalogs :
        running[p].results = AloneOn(catalog, running[p]).candidates

\* a search invoked during a write has finished, and the catalogs before and
\* after the write give different candidates
C24_Witness ==
  \E p \in Invocations :
    /\ Finished(p)
    /\ Cardinality(running[p].catalogs) = 2
    /\ \E before \in running[p].catalogs, after \in running[p].catalogs :
         /\ AloneOn(before, running[p]).candidates # AloneOn(after, running[p]).candidates
         /\ running[p].results = AloneOn(after, running[p]).candidates
         /\ running[p].results # <<>>

\* the jobs of the limiter whose function has been started
StartedJobs ==
  IF limiter = NoValue THEN {}
  ELSE { k \in 1..Len(limiter.jobs) : limiter.jobs[k].started >= 0 }

\* C27: the functions passed to schedule run one at a time, a function starts
\* only when every function scheduled before it has run to its end, and two
\* executions start at least minInterval apart.
C27_OneAtATimeInOrderSpaced ==
  /\ \A j \in StartedJobs, k \in StartedJobs :
       j < k =>
         /\ limiter.jobs[j].status \in {"resolved", "rejected"}
         /\ limiter.jobs[k].started - limiter.jobs[j].started >= minInterval
  /\ \A k \in StartedJobs : \A j \in 1..(k - 1) : j \in StartedJobs
  /\ limiter # NoValue =>
       Cardinality({ k \in 1..Len(limiter.jobs) : limiter.jobs[k].status = "running" }) <= 1

\* three functions were scheduled while none had finished; the second started
\* exactly minInterval after the first and runs while the third is queued
C27_Witness ==
  /\ limiter # NoValue
  /\ Len(limiter.jobs) >= 3
  /\ limiter.jobs[1].status = "resolved"
  /\ limiter.jobs[2].status = "running"
  /\ limiter.jobs[3].status = "queued"
  /\ limiter.jobs[2].started = limiter.jobs[1].started + minInterval

\* C35: every function whose promise has settled was executed: a rejection of
\* an earlier function does not settle a later one.
C35_RejectionDoesNotStopLaterCalls ==
  limiter # NoValue =>
    \A k \in 1..Len(limiter.jobs) :
      limiter.jobs[k].status \in {"resolved", "rejected"} => k \in StartedJobs

\* the outcome of attempt i of the request, and whether fetch was called for it
OutcomeOf(i) == limiter.jobs[request.jobs[i]].result
RealFetch(i) == limiter.jobs[request.jobs[i]].started >= 0

RequestEnded ==
  /\ request # NoValue
  /\ request.phase \in {"returned", "thrown"}

\* C28: a request makes at most MAX_RETRIES attempts; when it has ended, every
\* attempt but the last ended with 429, 5xx, a timeout or a network error and
\* was followed by an attempt that called fetch, the attempts stopped before
\* MAX_RETRIES only on a parsed response or another 4xx, and a 4xx is thrown.
C28_RetriesAreRealFetches ==
  /\ request # NoValue => Len(request.jobs) <= MAX_RETRIES
  /\ RequestEnded =>
       LET n == Len(request.jobs)
       IN /\ \A i \in 1..n : RealFetch(i)
          /\ \A i \in 1..(n - 1) :
               OutcomeOf(i) \in {"429", "5xx", "AbortError", "network"}
          /\ n < MAX_RETRIES => OutcomeOf(n) \in {"ok", "4xx"}
          /\ OutcomeOf(n) = "ok" <=> request.phase = "returned"
          /\ OutcomeOf(n) = "4xx" => request.error = "HTTP"

\* C29: at most one debounce timer is pending; a search is sent only for the
\* text the box holds and has held for 100 ms; while the box is empty no search
\* is pending, and the results are empty unless a response arrived since.
C29_Debounced ==
  overlay # NoValue =>
    /\ Cardinality(overlay.timers) <= 1
    /\ overlay.sent # NoValue =>
         /\ overlay.sent.query = overlay.sent.input
         /\ overlay.sent.quiet >= DebounceTicks
    /\ trim(overlay.input) = <<>> =>
         /\ overlay.timers = {}
         /\ ~overlay.late => overlay.results = <<>>

\* C30: once no search is in flight, the results shown are those of the most
\* recently issued query.
C30_LatestQueryShown ==
  (overlay # NoValue /\ overlay.inflight = <<>> /\ overlay.latest # NoValue) =>
    overlay.results = responseCards(cards, sets, overlay.latest)

\* the handler of a message of this type has just answered
Answered(type) ==
  /\ worker # NoValue
  /\ worker.response # NoValue
  /\ worker.response.type = type

C32_LoggedOutHoldsNoToken ==
  worker # NoValue =>
    /\ worker.loggedOut => worker.token = NoToken
    /\ \A type \in {"ADD_CARD", "CACHE_SETS"} :
         (Answered(type) /\ worker.response.tokenHeld = NoToken) =>
           /\ ~worker.response.ok
           /\ worker.response.error = "Not authenticated"
           /\ ~worker.response.calledApi
           /\ ~worker.response.changedCache

\* C33: with no handler in progress the phase is the one the flags determine,
\* and the search input is enabled in the phase ready only.
C33_PhaseAgreesWithFlags ==
  (overlay # NoValue /\ overlay.loaded) =>
    /\ overlay.currentPhase = determinePhase(overlay)
    /\ overlay.searchDisabled <=> overlay.currentPhase # PHASE_READY

TokensPrefixInOrder(queryTokens, cardTokens) ==
  /\ Len(queryTokens) > 0
  /\ Len(queryTokens) <= Len(cardTokens)
  /\ \A i \in 1..Len(queryTokens) : startsWith(cardTokens[i], queryTokens[i])

\* C36: a multi_token search retrieves every cached record, of a set the
\* search covers, whose tokens the query tokens are prefixes of in order.
C36_MultiTokenRetrieves ==
  (search # NoValue /\ search.intent.strategy = "multi_token") =>
    \A emid \in DOMAIN cards :
      ( /\ PassesSetFilter(SetFilterOf(search.activeSets), cards[emid])
        /\ TokensPrefixInOrder(search.intent.tokens, cards[emid].tokens) )
      => cards[emid] \in Range(search.candidates)

\* C37: the results of a search hold no card of a set that was marked
\* inactive when the search asked for the active sets.
C37_InactiveSetsNeverShown ==
  (search # NoValue /\ search.phase = "shown") =>
    \A i \in 1..Len(search.cards) : search.cards[i].set_code \notin search.inactive

\* C38: the card_count of every set is the number of stored cards of the set,
\* and every stored card belongs to a set that has metadata.
C38_CountsMatchCards ==
  /\ \A code \in DOMAIN sets :
       sets[code].card_count = Cardinality(EmidsOfSet(cards, code))
  /\ \A emid \in DOMAIN cards : cards[emid].set_code \in DOMAIN sets

\* C39: scoreMatch never returns a negative score, for the indexed record and
\* for the version 1 record alike; 0 is the score of an exact match.
C39_ScoreNeverNegative ==
  ScorerRan => (outScore.indexed >= 0 /\ outScore.legacy >= 0)

\* C40: for a query of strategy initials or space_initials, the initials of a
\* record start with the query exactly when the query is one of the record's
\* progressive initials.
C40_InitialsClausesAgree ==
  (ScorerRan /\ outIntent.strategy \in {"initials", "space_initials"}) =>
    ( startsWith(outRecord.initials, outIntent.query)
      <=> includes(outRecord.progressive_initials, outIntent.query) )

\* an initials query that is a proper prefix of the initials of the record
C40_Witness ==
  /\ ScorerRan
  /\ outIntent.strategy = "initials"
  /\ startsWith(outRecord.initials, outIntent.query)
  /\ outRecord.initials # outIntent.query
  /\ includes(outRecord.progressive_initials, outIntent.query)

\* the call of op has ended, resolved or rejected, and holds its outcome
Ended(op) ==
  /\ writing # NoValue
  /\ writing.op = op
  /\ writing.phase \in {"committed", "failed"}

\* the records cacheSet derives from its raw cards
DerivedRecords(w) ==
  { toCardRecord(w.rawCards[i], w.setCode, w.setCode) : i \in 1..Len(w.rawCards) }

\* C25: once cacheSet(setCode, setName, rawCards) has completed, the stored
\* card records with that set_code are exactly the records derived from
\* rawCards, and a search returns no other record of the set.
C25_CacheSetReplaces ==
  Ended("cacheSet") =>
    /\ { cards[e] : e \in EmidsOfSet(cards, writing.setCode) } = DerivedRecords(writing)
    /\ \A query \in TxQueries :
         LET returned == AloneOn(cards, [query |-> query, activeSets |-> NoActiveSets]).returned
         IN \A i \in 1..Len(returned) :
              returned[i].set_code = writing.setCode
                => returned[i] \in DerivedRecords(writing)

\* C26: clearSet(setCode) ends without error, with no card record of the set
\* and no metadata entry of the set stored, and with the cards and metadata of
\* every other set as they were.
C26_ClearSetRemovesSet ==
  Ended("clearSet") =>
    /\ writing.phase = "committed"
    /\ EmidsOfSet(cards, writing.setCode) = {}
    /\ writing.setCode \notin DOMAIN sets
    /\ \A e \in DOMAIN writing.before :
         writing.before[e].set_code # writing.setCode
           => (e \in DOMAIN cards /\ cards[e] = writing.before[e])
    /\ \A code \in DOMAIN writing.beforeSets :
         code # writing.setCode
           => (code \in DOMAIN sets /\ sets[code] = writing.beforeSets[code])

====
